---- MODULE Spec2Model ----
(***************************************************************************)
(* A model of the task orchestration core of functional_call:              *)
(*   core/event_bus.py    EventBus   (per-request event log)               *)
(*   core/job_manager.py  JobManager (one background thread per job)       *)
(*   tools/robot_client.py, agents/command_agent.py  (the job runner and   *)
(*                        its polling loop)                                *)
(*   voice_server.py      voice_events (the polling consumer)              *)
(***************************************************************************)
EXTENDS Integers, Sequences, FiniteSets, TLC

\* ------------------------------------------------------------------ bounds
MaxJobs == 2          \* request ids handed out (uuid4 in the code: always fresh)
MaxEmits == 5         \* emits, over all requests, in the event-log specification
MaxRetention == 3     \* largest retention cap an EventBus is constructed with
MaxLimit == 2         \* largest 'limit' a get_events caller passes
MaxElapsed == 1       \* elapsed seconds counted inside one poll loop (saturating)
MaxOps == 1           \* longest operation list handed to a runner

ReqIds == 1..MaxJobs
BusReqs == {1, 2}
AllReqs == ReqIds \cup BusReqs
Sessions == {"S1", "S2"}
SessionOrder(s) == IF s = "S1" THEN 1 ELSE 2
None == "None"
NoReq == 0            \* "no request" where the code has None for a request id
EventTypes == {"started", "progress"}
Afters == 0..(MaxEmits + 1)
Limits == -1..MaxLimit
ProgressEvery == 5
max_retries == 3
\* An error message is modelled by the set of fragments it contains, so that
\* 'kw in err_msg' is membership
TransientKeywords == {"Modbus Error", "ConnectionError", "SlaveFailure", "0 received"}
ErrorMessages == {{"Modbus Error"}, {"ConnectionError"}, {"SlaveFailure"},
                  {"Incomplete message", "0 received"},
                  {"Incomplete message"}, {"IllegalAddress"}}
Outcomes == {[ok |-> TRUE, msg |-> {}]} \cup
            {[ok |-> FALSE, msg |-> m] : m \in ErrorMessages}
Timeouts == {1, MaxElapsed + 1}

\* What a status read answers: the controller's task record (state, task
\* number, result), or an error raised by the retried read
MovementTask(state, no, result) == [state |-> state, no |-> no, result |-> result]
NoStatus == MovementTask("none", 0, "none")
ReadError == MovementTask("read_error", 0, "none")
Reads(task_no) ==
    {MovementTask("running", task_no, "none"),
     MovementTask("finished", task_no, "ok"),
     MovementTask("finished", task_no, "error"),
     MovementTask("finished", task_no - 1, "ok"),
     ReadError}

VARIABLES
    retention_max,       \* EventBus._retention_max
    streams,             \* EventBus._streams
    emitted,             \* history: every event emit() returned, per request
    cursor,              \* the consumer's 'after' for its next poll
    received,            \* history: the events the consumer was handed
    jobs,                \* JobManager._jobs: request_id -> JobInfo
    session_to_request,  \* JobManager._session_to_request
    lock,                \* holder of JobManager._lock across start()'s block
    hpc,                 \* the handler thread's position inside a JobManager call
    hjob,                \* the handler's locals: request_id, session_id, job
    jpc,                 \* each job thread's position in _run_wrapper / runner
    jloc,                \* each job thread's locals (runner and poll loop)
    cleanup_calls,       \* history: how often each job's on_cleanup ran
    active_request_id,   \* SessionState.active_request_id, per session
    client_task_no,      \* RobotClient._task_no
    client_lock,         \* holder of RobotClient._lock
    lpc,                 \* each thread's position inside a RobotClient link call
    retry,               \* one _retry_on_modbus_error call: its locals and history
    tnpc,                \* each thread's position inside _next_task_no
    tnreg,               \* each thread's value of self._task_no, as it loaded it
    issued,              \* history: the task numbers _next_task_no returned
    hcall,               \* the handler thread's handle() call: its locals and result
    push,                \* one VoicePushNotifier push: its thread's locals and history
    wait,                \* one SDK wait_*_task_finish call: its locals and history
    hcall2,              \* a handle() call on a second thread: its locals and result
    running_sessions,    \* planning_flow._running_sessions
    PLANS,               \* planning.PLANS: plan_id -> the plan's step_statuses
    fcall,               \* each PlanningFlow.execute call: its position and locals
    fsession,            \* each session's active_plan_id and conversation length
    flow_calls,          \* history: how many execute calls have started
    charge               \* one start_charge / stop_charge call and the controller

busvars == <<retention_max, streams, emitted, cursor, received>>
jobvars == <<jobs, session_to_request, lock, hpc, hjob, jpc, jloc, cleanup_calls>>
restvars == <<active_request_id, client_task_no, client_lock, lpc, retry>>
tnvars == <<tnpc, tnreg, issued>>
flowvars == <<running_sessions, PLANS, fcall, fsession, flow_calls>>
morevars == <<tnpc, tnreg, issued, hcall, push, wait, hcall2, flowvars, charge>>
vars == <<retention_max, streams, emitted, cursor, received,
          jobs, session_to_request, lock, hpc, hjob, jpc, jloc, cleanup_calls,
          active_request_id, client_task_no, client_lock, lpc, retry,
          tnpc, tnreg, issued, hcall, push, wait, hcall2,
          running_sessions, PLANS, fcall, fsession, flow_calls, charge>>

\* ------------------------------------------------------------ Python helpers
Min(a, b) == IF a < b THEN a ELSE b
Max(a, b) == IF a > b THEN a ELSE b

\* s[i:] of a Python list
PySliceFrom(s, i) ==
    LET start == IF i < 0 THEN Max(Len(s) + i, 0) ELSE Min(i, Len(s))
    IN  SubSeq(s, start + 1, Len(s))

\* s[:k] of a Python list
PySliceTo(s, k) ==
    LET stop == IF k < 0 THEN Max(Len(s) + k, 0) ELSE Min(k, Len(s))
    IN  SubSeq(s, 1, stop)

\* ------------------------------------------------------------------ EventBus
VoiceEvent(id, type) == [event_id |-> id, type |-> type]

RequestEventStream == [events |-> <<>>, done |-> FALSE, last_event_id |-> 0]

\* ensure_stream() installing a fresh stream whether or not one exists
ensure_stream_resets(st, r) ==
    (r :> RequestEventStream) @@ st

ensure_stream(st, r) ==
    IF r \notin DOMAIN st THEN st @@ (r :> RequestEventStream) ELSE st

\* emit() numbering the event by the length of the retained list
emit_id_from_length(st, cap, r, type) ==
    LET st1 == ensure_stream(st, r)
        id == Len(st1[r].events) + 1
        ev == VoiceEvent(id, type)
        appended == Append(st1[r].events, ev)
        kept == IF Len(appended) > cap THEN PySliceFrom(appended, 0 - cap)
                ELSE appended
    IN  [streams |-> [st1 EXCEPT ![r] = [@ EXCEPT !.last_event_id = id,
                                                  !.events = kept]],
         ev |-> ev]

\* emit() keeping the head of the list on overflow
emit_keep_head(st, cap, r, type) ==
    LET st1 == ensure_stream(st, r)
        id == st1[r].last_event_id + 1
        ev == VoiceEvent(id, type)
        appended == Append(st1[r].events, ev)
        kept == IF Len(appended) > cap THEN PySliceTo(appended, cap)
                ELSE appended
    IN  [streams |-> [st1 EXCEPT ![r] = [@ EXCEPT !.last_event_id = id,
                                                  !.events = kept]],
         ev |-> ev]

\* emit(): the stream table after the call and the event returned
emit(st, cap, r, type) ==
    LET st1 == ensure_stream(st, r)
        id == st1[r].last_event_id + 1
        ev == VoiceEvent(id, type)
        appended == Append(st1[r].events, ev)
        kept == IF Len(appended) > cap THEN PySliceFrom(appended, 0 - cap)
                ELSE appended
    IN  [streams |-> [st1 EXCEPT ![r] = [@ EXCEPT !.last_event_id = id,
                                                  !.events = kept]],
         ev |-> ev]

mark_done(st, r, done) ==
    LET st1 == ensure_stream(st, r)
    IN  [st1 EXCEPT ![r] = [@ EXCEPT !.done = done]]

\* get_events() with 'event_id >= after' as its filter
get_events_inclusive(st, r, after, limit) ==
    IF r \notin DOMAIN st
    THEN [events |-> <<>>, done |-> FALSE, next_after |-> after, streams |-> st]
    ELSE LET stream == st[r]
             all_new == SelectSeq(stream.events, LAMBDA e : e.event_id >= after)
             new_events == IF limit # 0 /\ Len(all_new) > limit
                           THEN PySliceTo(all_new, limit)
                           ELSE all_new
             next_after == IF new_events # <<>>
                           THEN new_events[Len(new_events)].event_id
                           ELSE after
         IN  [events |-> new_events, done |-> stream.done,
              next_after |-> next_after, streams |-> st]

\* get_events() taking its cursor from the whole stream, not from what it returns
get_events_cursor_at_end(st, r, after, limit) ==
    IF r \notin DOMAIN st
    THEN [events |-> <<>>, done |-> FALSE, next_after |-> after, streams |-> st]
    ELSE LET stream == st[r]
             all_new == SelectSeq(stream.events, LAMBDA e : e.event_id > after)
             new_events == IF limit # 0 /\ Len(all_new) > limit
                           THEN PySliceTo(all_new, limit)
                           ELSE all_new
             next_after == IF new_events # <<>>
                           THEN stream.last_event_id
                           ELSE after
         IN  [events |-> new_events, done |-> stream.done,
              next_after |-> next_after, streams |-> st]

\* get_events(): the result triple, and the stream table after the call
get_events(st, r, after, limit) ==
    IF r \notin DOMAIN st
    THEN [events |-> <<>>, done |-> FALSE, next_after |-> after, streams |-> st]
    ELSE LET stream == st[r]
             all_new == SelectSeq(stream.events, LAMBDA e : e.event_id > after)
             new_events == IF limit # 0 /\ Len(all_new) > limit
                           THEN PySliceTo(all_new, limit)
                           ELSE all_new
             next_after == IF new_events # <<>>
                           THEN new_events[Len(new_events)].event_id
                           ELSE after
         IN  [events |-> new_events, done |-> stream.done,
              next_after |-> next_after, streams |-> st]

\* ---------------------------------------------------------------- JobManager
\* pre is the history of move_to_station's pre-check: "none" outside it
NoLocals == [ops |-> 0, elapsed |-> 0, timeout_s |-> 0, last_progress_emit |-> 0,
             task_no |-> 0, status |-> NoStatus, exc |-> None, cancels |-> 0,
             pre |-> "none"]
NoCall == [request_id |-> NoReq, session_id |-> None]

JobInfo(request_id, session_id) ==
    [request_id |-> request_id, session_id |-> session_id, status |-> "running",
     ended_ts |-> None, error |-> None, result_text |-> None,
     stop_event |-> FALSE]

JobManagerInit ==
    /\ jobs = <<>>
    /\ session_to_request = <<>>
    /\ lock = None
    /\ hpc = "idle"
    /\ hjob = NoCall
    /\ jpc = [r \in ReqIds |-> "none"]
    /\ jloc = [r \in ReqIds |-> NoLocals]
    /\ cleanup_calls = [r \in ReqIds |-> 0]

\* No handle() call in progress, none has returned yet
NoOutput == [kind |-> None, speak_text |-> None, request_id |-> NoReq]
NoHandle == [stage |-> "idle", session_id |-> None, is_stop_cmd |-> FALSE,
             busy |-> NoReq, job |-> NoReq, request_id |-> NoReq,
             out |-> NoOutput]

\* no handle() call on the second thread; result is what its last call did
NoHandle2 == [stage |-> "idle", session_id |-> None, seen |-> NoReq,
              result |-> None]

\* session_store.py:39: no session holds a request
SessionInit ==
    /\ active_request_id = [s \in Sessions |-> NoReq]
    /\ hcall = NoHandle
    /\ hcall2 = NoHandle2

\* robot_client.py:28-34: the lock is free, no thread is in a link call;
\* _task_no starts at a random number, here the lowest one
FirstTaskNo == 1
\* no call of _retry_on_modbus_error in progress; outcomes is the history of
\* what each call of the wrapped operation did; an exception is <<>> for None
\* or <<message>>
RetryIdle == [pc |-> "idle", i |-> 0, outcomes |-> <<>>,
              last_exception |-> <<>>, raised |-> <<>>]

\* no push in progress
NoPush == [pc |-> "idle", event_type |-> None, targets |-> 0, url |-> 0,
           attempt |-> 0, posts |-> <<>>, raised |-> FALSE]

\* no SDK wait loop in progress; an exception is <<>> for none or <<record>>
NoWait == [pc |-> "idle", kind |-> None, timeout |-> 0, elapsed |-> 0,
           consecutive_errors |-> 0, reads |-> <<>>, cancels |-> 0,
           raised |-> <<>>]

\* ------------------------------------------------- planning flow: the state
\* how many execute calls the model starts, and how many steps a plan has
MaxFlowCalls == 2
MaxSteps == 2
\* the threads that can be inside PlanningFlow.execute at once
FlowCallers == {1, 2}
\* session.active_plan_id is None; a plan id is <<session_id, time>>
NoPlan == <<>>
StepStatuses == {"not_started", "in_progress", "completed", "failed", "error"}
\* no execute call on this thread; next_step_idx is 1-based here, 0 for the
\* code's -1; ran is the history of the step indices this call executed and
\* ret what its last call returned
NoFlowCall == [pc |-> "idle", session_id |-> None, plan_id |-> NoPlan,
               next_step_idx |-> 0, ran |-> <<>>, ret |-> None]

\* planning_flow.py:18-19, planning.py:6, session_store.py:35-42: nothing
\* running, no plan, every session without a plan and with an empty
\* conversation
FlowInit ==
    /\ running_sessions = {}
    /\ PLANS = <<>>
    /\ fcall = [c \in FlowCallers |-> NoFlowCall]
    /\ fsession = [s \in Sessions |-> [active_plan_id |-> NoPlan,
                                       conversation |-> 0]]
    /\ flow_calls = 0

\* ------------------------------------------------- charging: the state
\* how many start_charge / stop_charge calls the model makes, and how many
\* polls one call makes before its timeout
MaxChargeCalls == 3
MaxChargePolls == 2
\* no charge call in progress; charging is the controller's discrete input
\* 10004, coils the history of the coil numbers written, reads and polls the
\* is_charge reads of the current call (by is_charging and by the poll loop),
\* events what the current call emitted, raised its exception (<<>> for none)
NoCharge == [pc |-> "idle", op |-> None, charging |-> FALSE, coils |-> <<>>,
             reads |-> 0, polls |-> 0, events |-> <<>>, raised |-> <<>>,
             calls |-> 0]

RobotClientInit ==
    /\ client_task_no = FirstTaskNo
    /\ client_lock = NoReq
    /\ lpc = [th \in ReqIds |-> "idle"]
    /\ retry = RetryIdle
    /\ tnpc = [th \in ReqIds |-> "idle"]
    /\ tnreg = [th \in ReqIds |-> 0]
    /\ issued = <<>>
    /\ push = NoPush
    /\ wait = NoWait
    /\ FlowInit
    /\ charge = NoCharge

\* get_active_job_by_session that returns the mapped job whatever its status
get_active_job_by_session_any_status(jb, index, session_id) ==
    IF session_id \notin DOMAIN index THEN NoReq
    ELSE LET req_id == index[session_id]
         IN  IF req_id \in DOMAIN jb THEN req_id ELSE NoReq

\* get_active_job_by_session on a given job table and session index
get_active_job_by_session(jb, index, session_id) ==
    IF session_id \notin DOMAIN index THEN NoReq
    ELSE LET req_id == index[session_id]
         IN  IF req_id \in DOMAIN jb /\ jb[req_id].status = "running"
             THEN req_id ELSE NoReq

\* --- SessionState.is_busy (session_store.py:72-93) --------------------------
\* The result and active_request_id after the call. Both callers set
\* session._job_manager just before calling it (command_agent.py:97,
\* planner_agent.py:86), so the branch of line 80 is never taken.
\* is_busy() that reports a stale reference without clearing it
is_busy_no_heal(active, jb) ==
    IF active = NoReq THEN [busy |-> FALSE, active_request_id |-> active]
    ELSE IF active \in DOMAIN jb /\ jb[active].status = "running"
         THEN [busy |-> TRUE, active_request_id |-> active]
         ELSE [busy |-> FALSE, active_request_id |-> active]

is_busy(active, jb) ==
    IF active = NoReq THEN [busy |-> FALSE, active_request_id |-> active]
    ELSE IF active \in DOMAIN jb /\ jb[active].status = "running"
         THEN [busy |-> TRUE, active_request_id |-> active]
         ELSE [busy |-> FALSE, active_request_id |-> NoReq]

\* command_agent.py:103 (planner_agent.py:90): the handler asks is_busy()
IsBusy(session_id) ==
    /\ hpc = "idle"
    /\ lock = None
    /\ active_request_id' =
          [active_request_id EXCEPT ![session_id] =
              is_busy(@, jobs).active_request_id]
    /\ UNCHANGED jobvars
    /\ UNCHANGED busvars
    /\ UNCHANGED <<client_task_no, client_lock, lpc, retry>>
    /\ UNCHANGED morevars

\* --- the handler thread: start() ------------------------------------------
\* start() that takes the lock without signalling the session's running job
StartSignal_no_signal(session_id) ==
    /\ hpc = "idle"
    /\ lock = None
    /\ Cardinality(DOMAIN jobs) < MaxJobs
    /\ lock' = "handler"
    /\ hjob' = [request_id |-> Cardinality(DOMAIN jobs) + 1,
                session_id |-> session_id]
    /\ hpc' = "start_register"
    /\ active_request_id' =
          [active_request_id EXCEPT ![session_id] = Cardinality(DOMAIN jobs) + 1]
    /\ streams' = ensure_stream(streams, Cardinality(DOMAIN jobs) + 1)
    /\ UNCHANGED <<retention_max, emitted, cursor, received>>
    /\ UNCHANGED <<jobs, session_to_request, jpc, jloc, cleanup_calls>>
    /\ UNCHANGED <<client_task_no, client_lock, lpc, retry>>
    /\ UNCHANGED <<tnvars, push, wait, hcall2, flowvars, charge>>

\* The caller's lines before start() (command_agent.py:126-128,
\* planner_agent.py:109-111): a fresh request id, session.active_request_id set
\* to it, its stream created. Then job_manager.py:87-95: build the JobInfo,
\* take the lock, signal the session's running job (if any).
StartSignal(session_id) ==
    /\ hpc = "idle"
    /\ lock = None
    /\ Cardinality(DOMAIN jobs) < MaxJobs
    /\ lock' = "handler"
    /\ hjob' = [request_id |-> Cardinality(DOMAIN jobs) + 1,
                session_id |-> session_id]
    /\ hpc' = "start_register"
    /\ jobs' = IF /\ session_id \in DOMAIN session_to_request
                  /\ session_to_request[session_id] \in DOMAIN jobs
                  /\ jobs[session_to_request[session_id]].status = "running"
               THEN [jobs EXCEPT ![session_to_request[session_id]].stop_event = TRUE]
               ELSE jobs
    /\ active_request_id' =
          [active_request_id EXCEPT ![session_id] = Cardinality(DOMAIN jobs) + 1]
    /\ streams' = ensure_stream(streams, Cardinality(DOMAIN jobs) + 1)
    /\ UNCHANGED <<retention_max, emitted, cursor, received>>
    /\ UNCHANGED <<session_to_request, jpc, jloc, cleanup_calls>>
    /\ UNCHANGED <<client_task_no, client_lock, lpc, retry>>
    /\ UNCHANGED <<tnvars, push, wait, hcall2, flowvars, charge>>

\* job_manager.py:97-98: register the job and the session mapping, release the lock
StartRegister ==
    /\ hpc = "start_register"
    /\ jobs' = (hjob.request_id :> JobInfo(hjob.request_id, hjob.session_id)) @@ jobs
    /\ session_to_request' = (hjob.session_id :> hjob.request_id) @@ session_to_request
    /\ lock' = None
    /\ hpc' = "start_thread"
    /\ UNCHANGED <<hjob, jpc, jloc, cleanup_calls>>
    /\ UNCHANGED busvars
    /\ UNCHANGED restvars
    /\ UNCHANGED morevars

\* job_manager.py:139-141: start the thread (which calls the runner, line 103)
\* and return the job
StartThread ==
    /\ hpc = "start_thread"
    /\ jpc' = [jpc EXCEPT ![hjob.request_id] = "r_begin"]
    /\ hpc' = "idle"
    /\ hjob' = NoCall
    /\ UNCHANGED <<jobs, session_to_request, lock, jloc, cleanup_calls>>
    /\ UNCHANGED busvars
    /\ UNCHANGED restvars
    /\ UNCHANGED morevars

\* --- the handler thread: cancel_session_job() ------------------------------
\* job_manager.py:67-68
CancelLookup(session_id) ==
    /\ hpc = "idle"
    /\ lock = None
    /\ LET job == get_active_job_by_session(jobs, session_to_request, session_id)
       IN  IF job = NoReq
           THEN UNCHANGED <<hpc, hjob>>
           ELSE /\ hpc' = "cancel_signal"
                /\ hjob' = [request_id |-> job, session_id |-> session_id]
    /\ UNCHANGED <<jobs, session_to_request, lock, jpc, jloc, cleanup_calls>>
    /\ UNCHANGED busvars
    /\ UNCHANGED restvars
    /\ UNCHANGED <<tnvars, push, wait, hcall2, flowvars, charge>>

\* job_manager.py:70
CancelSignal ==
    /\ hpc = "cancel_signal"
    /\ jobs' = [jobs EXCEPT ![hjob.request_id].stop_event = TRUE]
    /\ hpc' = "cancel_mark"
    /\ UNCHANGED <<session_to_request, lock, hjob, jpc, jloc, cleanup_calls>>
    /\ UNCHANGED busvars
    /\ UNCHANGED restvars
    /\ UNCHANGED morevars

\* job_manager.py:71-72
CancelMark ==
    /\ hpc = "cancel_mark"
    /\ lock = None
    /\ jobs' = [jobs EXCEPT ![hjob.request_id].status = "cancelled"]
    /\ hpc' = "idle"
    /\ hjob' = NoCall
    /\ UNCHANGED <<session_to_request, lock, jpc, jloc, cleanup_calls>>
    /\ UNCHANGED busvars
    /\ UNCHANGED restvars
    /\ UNCHANGED morevars

\* --- the job thread: the runner (command_agent._execute_actions_managed) ----
\* _emit (command_agent.py:160-163), with the history of what was emitted
RunnerEmit(r, type) ==
    LET res == emit(streams, retention_max, r, type)
    IN  /\ streams' = res.streams
        /\ emitted' = [emitted EXCEPT ![r] = Append(@, res.ev)]
        /\ UNCHANGED <<retention_max, cursor, received>>

Goto(r, pc) == jpc' = [jpc EXCEPT ![r] = pc]

\* a runner whose first step marks the stream done as it emits 'started'
RunnerBegin_marks_done(r, n_ops) ==
    /\ jpc[r] = "r_begin"
    /\ LET res == emit(streams, retention_max, r, "started")
       IN  /\ streams' = mark_done(res.streams, r, TRUE)
           /\ emitted' = [emitted EXCEPT ![r] = Append(@, res.ev)]
           /\ UNCHANGED <<retention_max, cursor, received>>
    /\ Goto(r, "r_next")
    /\ jloc' = [jloc EXCEPT ![r] = [NoLocals EXCEPT !.ops = n_ops]]
    /\ UNCHANGED <<jobs, session_to_request, lock, hpc, hjob, cleanup_calls>>
    /\ UNCHANGED restvars
    /\ UNCHANGED morevars

\* command_agent.py:166; n_ops is the length of the operation list the runner
\* closes over (command_agent.py:112, 131-132)
RunnerBegin(r, n_ops) ==
    /\ jpc[r] = "r_begin"
    /\ RunnerEmit(r, "started")
    /\ Goto(r, "r_next")
    /\ jloc' = [jloc EXCEPT ![r] = [NoLocals EXCEPT !.ops = n_ops]]
    /\ UNCHANGED <<jobs, session_to_request, lock, hpc, hjob, cleanup_calls>>
    /\ UNCHANGED restvars
    /\ UNCHANGED morevars

\* command_agent.py:174-178, 202-210: the loop header. No operation left: emit
\* 'completed' and return; else check the stop signal before the operation.
RunnerNext(r) ==
    /\ jpc[r] = "r_next"
    /\ IF jloc[r].ops = 0
       THEN /\ RunnerEmit(r, "completed")
            /\ Goto(r, "w_ok")
       ELSE /\ UNCHANGED busvars
            /\ IF jobs[r].stop_event
               THEN Goto(r, "r_interrupted")
               ELSE Goto(r, "op_issue")
    /\ UNCHANGED <<jobs, session_to_request, lock, hpc, hjob, jloc, cleanup_calls>>
    /\ UNCHANGED restvars
    /\ UNCHANGED morevars

\* robot_client.py:36-38
_next_task_no(task_no) == task_no + 1

\* check_done that accepts 'finished' whatever the task number is
check_done_any_number(t, task_no) ==
    IF t.state = "finished"
    THEN IF t.result = "error" THEN "raise" ELSE "true"
    ELSE "false"

\* robot_client.py:197-202 (230-235): "true", "false", or "raise" for the
\* RuntimeError of a task the controller ended with an error
check_done(t, task_no) ==
    IF t.state = "finished" /\ (t.no = task_no \/ task_no = 0)
    THEN IF t.result = "error" THEN "raise" ELSE "true"
    ELSE "false"

\* robot_client.py:192-194 (226-228): take the next task number, emit 'started'
\* and write the command, retried; the write succeeds or its error is raised.
\* The operation is execute_action, which ActionToolbox passes through
\* (action_toolbox.py:19-29); move_to_station runs the same poll loop, and
\* NavToolbox adds events of its own around it (nav_toolbox.py:34-44).
\* robot_client.py:131-134: the poll loop's clock starts.
OpIssue(r, timeout_s, write_ok) ==
    /\ jpc[r] = "op_issue"
    /\ client_task_no' = _next_task_no(client_task_no)
    /\ RunnerEmit(r, "started")
    /\ IF write_ok
       THEN /\ Goto(r, "poll_top")
            /\ jloc' = [jloc EXCEPT ![r].elapsed = 0, ![r].timeout_s = timeout_s,
                                    ![r].last_progress_emit = 0 - ProgressEvery,
                                    ![r].task_no = _next_task_no(client_task_no)]
       ELSE /\ Goto(r, "r_error")
            /\ jloc' = [jloc EXCEPT ![r].exc = "write error"]
    /\ UNCHANGED <<jobs, session_to_request, lock, hpc, hjob, cleanup_calls>>
    /\ UNCHANGED <<active_request_id, client_lock, lpc, retry>>
    /\ UNCHANGED morevars

\* the poll loop's locals (start, last_progress_emit, timeout_s) end with the call
LeavePoll(loc) == [NoLocals EXCEPT !.ops = loc.ops]

\* a poll iteration that never looks at the stop signal
PollTop_ignores_stop(r) ==
    /\ jpc[r] = "poll_top"
    /\ IF jloc[r].elapsed >= jloc[r].timeout_s
       THEN /\ Goto(r, "r_error")
            /\ jloc' = [jloc EXCEPT ![r] = [LeavePoll(@) EXCEPT !.exc = "TimeoutError"]]
       ELSE Goto(r, "poll_query") /\ UNCHANGED jloc
    /\ UNCHANGED <<jobs, session_to_request, lock, hpc, hjob, cleanup_calls>>
    /\ UNCHANGED busvars
    /\ UNCHANGED restvars
    /\ UNCHANGED morevars

\* a poll iteration that checks the timeout before the stop signal
PollTop_timeout_first(r) ==
    /\ jpc[r] = "poll_top"
    /\ IF jloc[r].elapsed >= jloc[r].timeout_s
       THEN /\ Goto(r, "r_error")
            /\ jloc' = [jloc EXCEPT ![r] = [LeavePoll(@) EXCEPT !.exc = "TimeoutError"]]
       ELSE IF jobs[r].stop_event
            THEN Goto(r, "poll_cancel") /\ jloc' = [jloc EXCEPT ![r] = LeavePoll(@)]
            ELSE Goto(r, "poll_query") /\ UNCHANGED jloc
    /\ UNCHANGED <<jobs, session_to_request, lock, hpc, hjob, cleanup_calls>>
    /\ UNCHANGED busvars
    /\ UNCHANGED restvars
    /\ UNCHANGED morevars

\* robot_client.py:137-144: the top of a poll iteration
PollTop(r) ==
    /\ jpc[r] = "poll_top"
    /\ IF jobs[r].stop_event
       THEN Goto(r, "poll_cancel") /\ jloc' = [jloc EXCEPT ![r] = LeavePoll(@)]
       ELSE IF jloc[r].elapsed >= jloc[r].timeout_s
            THEN /\ Goto(r, "r_error")
                 /\ jloc' = [jloc EXCEPT ![r] =
                                [LeavePoll(@) EXCEPT !.exc = "TimeoutError"]]
            ELSE Goto(r, "poll_query") /\ UNCHANGED jloc
    /\ UNCHANGED <<jobs, session_to_request, lock, hpc, hjob, cleanup_calls>>
    /\ UNCHANGED busvars
    /\ UNCHANGED restvars
    /\ UNCHANGED morevars

\* robot_client.py:139-140: the controller-level cancel returns, and the loop
\* raises InterruptedError, or the cancel write itself raises
PollCancel(r, cancel_ok) ==
    /\ jpc[r] = "poll_cancel"
    /\ IF cancel_ok THEN Goto(r, "r_interrupted") ELSE Goto(r, "r_error")
    /\ jloc' = [jloc EXCEPT ![r].cancels = @ + 1,
                            ![r].exc = IF cancel_ok THEN "InterruptedError"
                                       ELSE "cancel error"]
    /\ UNCHANGED <<jobs, session_to_request, lock, hpc, hjob, cleanup_calls>>
    /\ UNCHANGED busvars
    /\ UNCHANGED restvars
    /\ UNCHANGED morevars

\* robot_client.py:146-167 and 213: one status read. t is what the retried
\* read answers: the controller's task record, or ReadError when the read
\* raises. Inside the try: the throttled progress event, then check_done_func.
\* Only check_done_func returning true leaves the loop; a false, an error it
\* raises and an error of the read all reach line 167: sleep one second and go
\* round again.
PollQuery(r, t) ==
    /\ jpc[r] = "poll_query"
    /\ LET due == /\ t # ReadError
                  /\ jloc[r].elapsed - jloc[r].last_progress_emit >= ProgressEvery
           tick == IF jloc[r].elapsed < MaxElapsed THEN jloc[r].elapsed + 1
                   ELSE jloc[r].elapsed
       IN  IF t # ReadError /\ check_done(t, jloc[r].task_no) = "true"
           THEN \* progress (if due), then step_done: the last emit is kept
                /\ LET res1 == IF due THEN emit(streams, retention_max, r, "progress")
                                ELSE [streams |-> streams, ev |-> VoiceEvent(0, None)]
                       res2 == emit(res1.streams, retention_max, r, "step_done")
                   IN  /\ streams' = res2.streams
                       /\ emitted' = [emitted EXCEPT ![r] =
                             IF due THEN Append(Append(@, res1.ev), res2.ev)
                             ELSE Append(@, res2.ev)]
                /\ UNCHANGED <<retention_max, cursor, received>>
                /\ jloc' = [jloc EXCEPT ![r] = [LeavePoll(@) EXCEPT !.ops = @ - 1]]
                /\ Goto(r, "r_next")
           ELSE /\ IF due THEN RunnerEmit(r, "progress") ELSE UNCHANGED busvars
                /\ jloc' = [jloc EXCEPT ![r].elapsed = tick,
                                        ![r].status = t,
                                        ![r].last_progress_emit =
                                            IF due THEN jloc[r].elapsed ELSE @]
                /\ Goto(r, "poll_top")
    /\ UNCHANGED <<jobs, session_to_request, lock, hpc, hjob, cleanup_calls>>
    /\ UNCHANGED restvars
    /\ UNCHANGED morevars

\* command_agent.py:212-221: InterruptedError: emit 'cancelled', return normally
RunnerInterrupted(r) ==
    /\ jpc[r] = "r_interrupted"
    /\ RunnerEmit(r, "cancelled")
    /\ Goto(r, "w_ok")
    /\ jloc' = [jloc EXCEPT ![r] = NoLocals]
    /\ UNCHANGED <<jobs, session_to_request, lock, hpc, hjob, cleanup_calls>>
    /\ UNCHANGED restvars
    /\ UNCHANGED morevars

\* command_agent.py:223-233: any other error: emit 'failed', re-raise
RunnerError(r) ==
    /\ jpc[r] = "r_error"
    /\ RunnerEmit(r, "failed")
    /\ Goto(r, "w_exc")
    /\ jloc' = [jloc EXCEPT ![r] = NoLocals]
    /\ UNCHANGED <<jobs, session_to_request, lock, hpc, hjob, cleanup_calls>>
    /\ UNCHANGED restvars
    /\ UNCHANGED morevars

\* --- the job thread: _run_wrapper -----------------------------------------
\* the normal-return block writing 'completed' whatever the status is
WrapperReturned_overwrites(r) ==
    /\ jpc[r] = "w_ok"
    /\ lock = None
    /\ jobs' = [jobs EXCEPT ![r].result_text = "text",
                            ![r].status = "completed",
                            ![r].ended_ts = "ts"]
    /\ Goto(r, "w_ok_done")
    /\ UNCHANGED <<session_to_request, lock, hpc, hjob, jloc, cleanup_calls>>
    /\ UNCHANGED busvars
    /\ UNCHANGED restvars
    /\ UNCHANGED morevars

\* mark_done called on the normal-return path only
WrapperMarkDone_on_return_only(r) ==
    /\ jpc[r] \in {"w_ok_done", "w_exc_done"}
    /\ streams' = IF jpc[r] = "w_ok_done" THEN mark_done(streams, r, TRUE)
                  ELSE streams
    /\ Goto(r, "w_finally")
    /\ UNCHANGED <<retention_max, emitted, cursor, received>>
    /\ UNCHANGED <<jobs, session_to_request, lock, hpc, hjob, jloc, cleanup_calls>>
    /\ UNCHANGED restvars
    /\ UNCHANGED morevars

\* job_manager.py:105-110
WrapperReturned(r) ==
    /\ jpc[r] = "w_ok"
    /\ lock = None
    /\ jobs' = [jobs EXCEPT ![r].result_text = "text",
                            ![r].status = IF @ = "running" THEN "completed" ELSE @,
                            ![r].ended_ts = "ts"]
    /\ Goto(r, "w_ok_done")
    /\ UNCHANGED <<session_to_request, lock, hpc, hjob, jloc, cleanup_calls>>
    /\ UNCHANGED busvars
    /\ UNCHANGED restvars
    /\ UNCHANGED morevars

\* job_manager.py:117-120
WrapperRaised(r) ==
    /\ jpc[r] = "w_exc"
    /\ lock = None
    /\ jobs' = [jobs EXCEPT ![r].status = "failed",
                            ![r].error = "error text",
                            ![r].ended_ts = "ts"]
    /\ Goto(r, "w_exc_done")
    /\ UNCHANGED <<session_to_request, lock, hpc, hjob, jloc, cleanup_calls>>
    /\ UNCHANGED busvars
    /\ UNCHANGED restvars
    /\ UNCHANGED morevars

\* job_manager.py:112 and 122: mark_done(request_id, True); on_done is None
WrapperMarkDone(r) ==
    /\ jpc[r] \in {"w_ok_done", "w_exc_done"}
    /\ streams' = mark_done(streams, r, TRUE)
    /\ Goto(r, "w_finally")
    /\ UNCHANGED <<retention_max, emitted, cursor, received>>
    /\ UNCHANGED <<jobs, session_to_request, lock, hpc, hjob, jloc, cleanup_calls>>
    /\ UNCHANGED restvars
    /\ UNCHANGED morevars

\* job_manager.py:129-131
WrapperFinally(r) ==
    /\ jpc[r] = "w_finally"
    /\ lock = None
    /\ session_to_request' =
          IF /\ jobs[r].session_id \in DOMAIN session_to_request
             /\ session_to_request[jobs[r].session_id] = r
          THEN [s \in DOMAIN session_to_request \ {jobs[r].session_id} |->
                    session_to_request[s]]
          ELSE session_to_request
    /\ Goto(r, "w_cleanup")
    /\ UNCHANGED <<jobs, lock, hpc, hjob, jloc, cleanup_calls>>
    /\ UNCHANGED busvars
    /\ UNCHANGED restvars
    /\ UNCHANGED morevars

\* job_manager.py:133-137: on_cleanup(), its own errors swallowed; thread ends.
\* on_cleanup is the caller's _cleanup (command_agent.py:135-138): it clears
\* session.active_request_id if that still names this request.
WrapperCleanup(r) ==
    /\ jpc[r] = "w_cleanup"
    /\ cleanup_calls' = [cleanup_calls EXCEPT ![r] = @ + 1]
    /\ active_request_id' =
          [active_request_id EXCEPT ![jobs[r].session_id] =
              IF @ = r THEN NoReq ELSE @]
    /\ Goto(r, "done")
    /\ UNCHANGED <<jobs, session_to_request, lock, hpc, hjob, jloc>>
    /\ UNCHANGED busvars
    /\ UNCHANGED <<client_task_no, client_lock, lpc, retry>>
    /\ UNCHANGED morevars

\* --- the job thread: any runner -------------------------------------------
\* job_manager.py:103: to the JobManager a runner is a callable that is handed
\* the stop signal and, sooner or later, returns a text or raises.
RunnerReturns(r) ==
    /\ jpc[r] = "r_begin"
    /\ Goto(r, "w_ok")
    /\ UNCHANGED <<jobs, session_to_request, lock, hpc, hjob, jloc, cleanup_calls>>
    /\ UNCHANGED busvars
    /\ UNCHANGED restvars
    /\ UNCHANGED morevars

RunnerRaises(r) ==
    /\ jpc[r] = "r_begin"
    /\ Goto(r, "w_exc")
    /\ UNCHANGED <<jobs, session_to_request, lock, hpc, hjob, jloc, cleanup_calls>>
    /\ UNCHANGED busvars
    /\ UNCHANGED restvars
    /\ UNCHANGED morevars

AnyRunnerStep(r) ==
    \/ RunnerReturns(r)
    \/ RunnerRaises(r)

RunnerStep(r) ==
    \/ \E n \in 1..MaxOps : RunnerBegin(r, n)
    \/ RunnerNext(r)
    \/ \E t \in Timeouts, ok \in BOOLEAN : OpIssue(r, t, ok)
    \/ PollTop(r)
    \/ \E ok \in BOOLEAN : PollCancel(r, ok)
    \/ \E t \in Reads(jloc[r].task_no) : PollQuery(r, t)
    \/ RunnerInterrupted(r)
    \/ RunnerError(r)

WrapperStep(r) ==
    \/ WrapperReturned(r)
    \/ WrapperRaised(r)
    \/ WrapperMarkDone(r)
    \/ WrapperFinally(r)
    \/ WrapperCleanup(r)

\* orchestrator.py:132: a session id is the client's, or a fresh uuid4; ids are
\* opaque, so a session not used before is given the first unused name.
KnownSessions == {jobs[r].session_id : r \in DOMAIN jobs}
NewSession == IF Sessions \ KnownSessions = {} THEN {}
              ELSE {CHOOSE s \in Sessions \ KnownSessions :
                        \A t \in Sessions \ KnownSessions : SessionOrder(s) <= SessionOrder(t)}

\* start() and cancel_session_job() called by a caller that is not inside
\* handle()
HandlerStep ==
    \/ \E s \in KnownSessions \cup NewSession : StartSignal(s) /\ UNCHANGED hcall
    \/ StartRegister
    \/ StartThread
    \/ \E s \in Sessions : CancelLookup(s) /\ UNCHANGED hcall
    \/ CancelSignal
    \/ CancelMark

Init ==
    /\ retention_max = MaxRetention
    /\ streams = <<>>
    /\ emitted = [r \in AllReqs |-> <<>>]
    /\ cursor = 0
    /\ received = <<>>
    /\ JobManagerInit
    /\ SessionInit
    /\ RobotClientInit

\* The JobManager with any runner
JobNext == HandlerStep \/ \E r \in ReqIds : (AnyRunnerStep(r) \/ WrapperStep(r))

\* The same, and the handler asking is_busy()
Next == JobNext \/ \E s \in Sessions : IsBusy(s)

Spec == Init /\ [][Next]_vars

\* The JobManager with the command agent's runner over the robot client
AgentNext == HandlerStep \/ \E r \in ReqIds : (RunnerStep(r) \/ WrapperStep(r))

RunnerSpec == Init /\ [][AgentNext]_vars

\* A started thread keeps running (the scheduler is fair to job threads); the
\* handler is not required to call anything.
FairRunnerSpec ==
    /\ RunnerSpec
    /\ WF_vars(StartRegister)
    /\ \A r \in ReqIds : WF_vars(RunnerStep(r) \/ WrapperStep(r))

\* The same for the JobManager with any runner: once a runner has ended, its
\* wrapper keeps running, and start() leaves its locked block.
FairSpec ==
    /\ Init /\ [][JobNext]_vars
    /\ WF_vars(StartRegister)
    /\ \A r \in ReqIds : WF_vars(WrapperStep(r))

\* ------------------------------------------------ one job's runner alone
\* The state in which start() has returned for the first request, on session
\* "S1": the job registered and mapped, its thread about to call the runner.
\* From there the job thread runs, and the handler may cancel the session's job.
PollInit ==
    /\ retention_max = MaxRetention
    /\ streams = ensure_stream(<<>>, 1)
    /\ emitted = [r \in AllReqs |-> <<>>]
    /\ cursor = 0
    /\ received = <<>>
    /\ jobs = (1 :> JobInfo(1, "S1"))
    /\ session_to_request = ("S1" :> 1)
    /\ lock = None
    /\ hpc = "idle"
    /\ hjob = NoCall
    /\ jpc = [r \in ReqIds |-> IF r = 1 THEN "r_begin" ELSE "none"]
    /\ jloc = [r \in ReqIds |-> NoLocals]
    /\ cleanup_calls = [r \in ReqIds |-> 0]
    /\ active_request_id = [s \in Sessions |-> IF s = "S1" THEN 1 ELSE NoReq]
    /\ hcall = NoHandle
    /\ hcall2 = NoHandle2
    /\ RobotClientInit

PollNext ==
    \/ RunnerStep(1)
    \/ WrapperStep(1)
    \/ CancelLookup("S1") /\ UNCHANGED hcall
    \/ CancelSignal
    \/ CancelMark

PollSpec == PollInit /\ [][PollNext]_vars

\* ------------------------------- one job's runner, a task the controller cancels
\* As PollSpec, with a controller that can also end the call's task with result
\* 'cancel' (MovementResult.MT_TASK_CANCEL / ActionResult.AT_TASK_CANCEL,
\* sr_modbus_model.py:85-108), as it does when another party cancels it.
ResultReads(task_no) ==
    Reads(task_no) \cup {MovementTask("finished", task_no, "cancel")}

\* robot_client.py:160-161 and 213 (246): the status read on which
\* check_done_func returns true: the loop is left, step_done is emitted. As
\* the first branch of PollQuery, with the read kept in jloc.status as history.
PollQueryDone(r, t) ==
    /\ jpc[r] = "poll_query"
    /\ check_done(t, jloc[r].task_no) = "true"
    /\ LET due == jloc[r].elapsed - jloc[r].last_progress_emit >= ProgressEvery
           res1 == IF due THEN emit(streams, retention_max, r, "progress")
                   ELSE [streams |-> streams, ev |-> VoiceEvent(0, None)]
           res2 == emit(res1.streams, retention_max, r, "step_done")
       IN  /\ streams' = res2.streams
           /\ emitted' = [emitted EXCEPT ![r] =
                 IF due THEN Append(Append(@, res1.ev), res2.ev)
                 ELSE Append(@, res2.ev)]
    /\ UNCHANGED <<retention_max, cursor, received>>
    /\ jloc' = [jloc EXCEPT ![r] = [LeavePoll(@) EXCEPT !.ops = @ - 1,
                                                        !.status = t]]
    /\ Goto(r, "r_next")
    /\ UNCHANGED <<jobs, session_to_request, lock, hpc, hjob, cleanup_calls>>
    /\ UNCHANGED restvars
    /\ UNCHANGED morevars

ResultNext ==
    \/ \E n \in 1..MaxOps : RunnerBegin(1, n)
    \/ RunnerNext(1)
    \/ \E t \in Timeouts, ok \in BOOLEAN : OpIssue(1, t, ok)
    \/ PollTop(1)
    \/ \E ok \in BOOLEAN : PollCancel(1, ok)
    \/ \E t \in ResultReads(jloc[1].task_no) : PollQuery(1, t) /\ jpc'[1] # "r_next"
    \/ \E t \in ResultReads(jloc[1].task_no) : PollQueryDone(1, t)
    \/ RunnerInterrupted(1)
    \/ RunnerError(1)
    \/ WrapperStep(1)
    \/ CancelLookup("S1") /\ UNCHANGED hcall
    \/ CancelSignal
    \/ CancelMark

ResultSpec == PollInit /\ [][ResultNext]_vars

\* ------------------------------------- one job's runner, a list of operations
\* As PollSpec, with operation lists of up to MaxPlanOps operations
\* (command_agent.py:174: for tool, args in actions).
MaxPlanOps == 2       \* longest operation list in the operation-list specification

PlanNext ==
    \/ \E n \in 1..MaxPlanOps : RunnerBegin(1, n)
    \/ RunnerStep(1)
    \/ WrapperStep(1)
    \/ CancelLookup("S1") /\ UNCHANGED hcall
    \/ CancelSignal
    \/ CancelMark

PlanSpec == PollInit /\ [][PlanNext]_vars

\* ------------------------------------------ move_to_station's pre-check
\* command_agent.py:181-185 and nav_toolbox.py:34-38: the loop header finds the
\* stop signal clear and the next operation to be move_to_station; NavToolbox
\* emits its 'started' and calls RobotClient.move_to_station.
RunnerNextMove(r) ==
    /\ jpc[r] = "r_next"
    /\ jloc[r].ops >= 1
    /\ ~jobs[r].stop_event
    /\ RunnerEmit(r, "started")
    /\ Goto(r, "mv_precheck")
    /\ UNCHANGED <<jobs, session_to_request, lock, hpc, hjob, jloc, cleanup_calls>>
    /\ UNCHANGED restvars
    /\ UNCHANGED morevars

\* What the pre-check's status read answers: a task running, no task running,
\* or an error (of the link, or of decoding the state)
PreReads == {MovementTask("running", 0, "none"),
             MovementTask("finished", 0, "ok"),
             ReadError}

\* a pre-check whose read error ends move_to_station
MovePrecheck_error_fatal(r, info) ==
    /\ jpc[r] = "mv_precheck"
    /\ IF info = ReadError
       THEN /\ Goto(r, "r_error")
            /\ jloc' = [jloc EXCEPT ![r].pre = "read failed"]
       ELSE IF info.state = "running"
            THEN /\ Goto(r, "mv_precancel")
                 /\ jloc' = [jloc EXCEPT ![r].pre = "running"]
            ELSE /\ Goto(r, "op_issue")
                 /\ jloc' = [jloc EXCEPT ![r].pre = "not running"]
    /\ UNCHANGED <<jobs, session_to_request, lock, hpc, hjob, cleanup_calls>>
    /\ UNCHANGED busvars
    /\ UNCHANGED restvars
    /\ UNCHANGED morevars

\* robot_client.py:185-189: info = self.get_movement_task_info(); a task
\* running: go on to cancel_current_task; none running: go on to the command;
\* an error: caught at 189, go on to the command
MovePrecheck(r, info) ==
    /\ jpc[r] = "mv_precheck"
    /\ IF info = ReadError
       THEN /\ Goto(r, "op_issue")
            /\ jloc' = [jloc EXCEPT ![r].pre = "read failed"]
       ELSE IF info.state = "running"
            THEN /\ Goto(r, "mv_precancel")
                 /\ jloc' = [jloc EXCEPT ![r].pre = "running"]
            ELSE /\ Goto(r, "op_issue")
                 /\ jloc' = [jloc EXCEPT ![r].pre = "not running"]
    /\ UNCHANGED <<jobs, session_to_request, lock, hpc, hjob, cleanup_calls>>
    /\ UNCHANGED busvars
    /\ UNCHANGED restvars
    /\ UNCHANGED morevars

\* robot_client.py:188-189: cancel_current_task() returns, or its error is
\* caught at 189; either way the command comes next
MovePreCancel(r, cancel_ok) ==
    /\ jpc[r] = "mv_precancel"
    /\ Goto(r, "op_issue")
    /\ jloc' = [jloc EXCEPT ![r].cancels = @ + 1,
                            ![r].pre = IF cancel_ok THEN "cancelled"
                                       ELSE "cancel failed"]
    /\ UNCHANGED <<jobs, session_to_request, lock, hpc, hjob, cleanup_calls>>
    /\ UNCHANGED busvars
    /\ UNCHANGED restvars
    /\ UNCHANGED morevars

\* One job whose operations are move_to_station or execute_action
MoveNext ==
    \/ RunnerNextMove(1)
    \/ \E info \in PreReads : MovePrecheck(1, info)
    \/ \E ok \in BOOLEAN : MovePreCancel(1, ok)
    \/ RunnerStep(1)
    \/ WrapperStep(1)
    \/ CancelLookup("S1") /\ UNCHANGED hcall
    \/ CancelSignal
    \/ CancelMark

MoveSpec == PollInit /\ [][MoveNext]_vars

\* ------------------------------ a job of move_to_station operations, events
\* Every operation of the job is move_to_station, which the runner calls
\* through NavToolbox (command_agent.py:181-185). NavToolbox.move_to_station
\* emits on the job's stream itself (nav_toolbox.py:34-44): 'started' before
\* RobotClient.move_to_station, 'completed' after it returns, 'failed' when it
\* raises any Exception (InterruptedError is one) before raising it again.
\* jloc.exc holds the error raised inside RobotClient.move_to_station, so it
\* tells an error that passes through NavToolbox from the loop header's own
\* InterruptedError (command_agent.py:176-178).
LastType(r) == IF emitted[r] = <<>> THEN None
               ELSE emitted[r][Len(emitted[r])].type

\* nav_toolbox.py:39-40: RobotClient.move_to_station has returned (its
\* 'step_done' is the last event): NavToolbox emits 'completed'
NavReturned(r) ==
    /\ jpc[r] = "r_next"
    /\ LastType(r) = "step_done"
    /\ RunnerEmit(r, "completed")
    /\ UNCHANGED <<jobs, session_to_request, lock, hpc, hjob, jpc, jloc, cleanup_calls>>
    /\ UNCHANGED restvars
    /\ UNCHANGED morevars

\* command_agent.py:174-185 and 202-203: the loop header, once NavToolbox has
\* returned: no operation left; the stop signal set; or the next
\* move_to_station, for which NavToolbox emits 'started' (nav_toolbox.py:34-35)
NavLoopHeader(r) ==
    /\ LastType(r) # "step_done"
    /\ \/ RunnerNextMove(r)
       \/ RunnerNext(r) /\ jpc'[r] # "op_issue"

\* nav_toolbox.py:41-44: RobotClient.move_to_station raised: NavToolbox emits
\* 'failed' and raises the error again
NavRaised(r) ==
    /\ jpc[r] \in {"r_error", "r_interrupted"}
    /\ jloc[r].exc # NoLocals.exc
    /\ LastType(r) # "failed"
    /\ RunnerEmit(r, "failed")
    /\ UNCHANGED <<jobs, session_to_request, lock, hpc, hjob, jpc, jloc, cleanup_calls>>
    /\ UNCHANGED restvars
    /\ UNCHANGED morevars

\* command_agent.py:212-233: the runner's except blocks, reached from the loop
\* header or after NavToolbox has raised
NavRunnerExcept(r) ==
    /\ jloc[r].exc = NoLocals.exc \/ LastType(r) = "failed"
    /\ \/ RunnerInterrupted(r)
       \/ RunnerError(r)

NavNext ==
    \/ \E n \in 1..MaxPlanOps : RunnerBegin(1, n)
    \/ NavLoopHeader(1)
    \/ \E info \in PreReads : MovePrecheck(1, info)
    \/ \E ok \in BOOLEAN : MovePreCancel(1, ok)
    \/ \E t \in Timeouts, ok \in BOOLEAN : OpIssue(1, t, ok)
    \/ PollTop(1)
    \/ \E ok \in BOOLEAN : PollCancel(1, ok)
    \/ \E t \in Reads(jloc[1].task_no) : PollQuery(1, t)
    \/ NavReturned(1)
    \/ NavRaised(1)
    \/ NavRunnerExcept(1)
    \/ WrapperStep(1)
    \/ CancelLookup("S1") /\ UNCHANGED hcall
    \/ CancelSignal
    \/ CancelMark

NavSpec == PollInit /\ [][NavNext]_vars

\* ------------------------------------------- _retry_on_modbus_error alone
\* robot_client.py:52
is_transient(err_msg) == \E kw \in TransientKeywords : kw \in err_msg

\* robot_client.py:45: a caller enters _retry_on_modbus_error (max_retries = 3
\* at every call site)
RetryCall ==
    /\ retry.pc # "loop"
    /\ retry' = [RetryIdle EXCEPT !.pc = "loop"]
    /\ UNCHANGED <<jobvars, busvars>>
    /\ UNCHANGED <<active_request_id, client_task_no, client_lock, lpc>>
    /\ UNCHANGED morevars

\* one iteration that retries whatever the error is
RetryAttempt_retries_any_error(o) ==
    /\ retry.pc = "loop"
    /\ retry.i < max_retries
    /\ retry' =
          IF o.ok
          THEN [retry EXCEPT !.pc = "returned", !.outcomes = Append(@, o)]
          ELSE IF retry.i < max_retries - 1
               THEN [retry EXCEPT !.i = @ + 1, !.outcomes = Append(@, o),
                                  !.last_exception = <<o.msg>>]
               ELSE [retry EXCEPT !.pc = "raised", !.outcomes = Append(@, o),
                                  !.last_exception = <<o.msg>>,
                                  !.raised = <<o.msg>>]
    /\ UNCHANGED <<jobvars, busvars>>
    /\ UNCHANGED <<active_request_id, client_task_no, client_lock, lpc>>
    /\ UNCHANGED morevars

\* robot_client.py:46-60: one iteration of the loop; o is what the wrapped
\* operation does on this call. (Lines 61-62 are reached only with
\* max_retries = 0.)
RetryAttempt(o) ==
    /\ retry.pc = "loop"
    /\ retry.i < max_retries
    /\ retry' =
          IF o.ok
          THEN [retry EXCEPT !.pc = "returned", !.outcomes = Append(@, o)]
          ELSE IF is_transient(o.msg)
               THEN IF retry.i < max_retries - 1
                    THEN [retry EXCEPT !.i = @ + 1, !.outcomes = Append(@, o),
                                       !.last_exception = <<o.msg>>]
                    ELSE [retry EXCEPT !.pc = "raised", !.outcomes = Append(@, o),
                                       !.last_exception = <<o.msg>>,
                                       !.raised = <<o.msg>>]
               ELSE [retry EXCEPT !.pc = "raised", !.outcomes = Append(@, o),
                                  !.raised = <<o.msg>>]
    /\ UNCHANGED <<jobvars, busvars>>
    /\ UNCHANGED <<active_request_id, client_task_no, client_lock, lpc>>
    /\ UNCHANGED morevars

RetryNext == RetryCall \/ \E o \in Outcomes : RetryAttempt(o)

RetrySpec == Init /\ [][RetryNext]_vars

\* ------------------------------------- RobotClient's accesses to the link
\* move_to_station as the sequence of its calls into self._sdk, run by the job
\* threads. A thread is at "x_wait" before a call, at "x_link" inside it.
\* Each row: from, to, and what the step does to self._lock.
MoveToStationSteps ==
    {<<"idle", "info_wait", "none">>,               \* move_to_station is called
     <<"info_wait", "info_link", "acquire">>,       \* 82-83 (from 186)
     <<"info_link", "pre_cancel_wait", "release">>, \* 187: a task is running
     <<"info_link", "write_wait", "release">>,      \* 187, 189: none, or error
     <<"pre_cancel_wait", "pre_cancel_link", "acquire">>,  \* 171-172 (from 188)
     <<"pre_cancel_link", "write_wait", "release">>,
     <<"write_wait", "write_link", "none">>,        \* 194: no lock taken
     <<"write_link", "poll_wait", "none">>,
     <<"write_link", "idle", "none">>,              \* 194: the write raises
     <<"poll_wait", "poll_link", "none">>,          \* 148, 205: no lock taken
     <<"poll_link", "poll_wait", "none">>,          \* 160-167: not done
     <<"poll_link", "idle", "none">>,               \* 161, 213: done
     <<"poll_wait", "idle", "none">>,               \* 143-144: timeout
     <<"poll_wait", "stop_cancel_wait", "none">>,   \* 137-139: stop signal seen
     <<"stop_cancel_wait", "stop_cancel_link", "acquire">>,  \* 171-172
     <<"stop_cancel_link", "idle", "release">>}     \* 140

InLink(th) == lpc[th] \in {"info_link", "pre_cancel_link", "write_link",
                           "poll_link", "stop_cancel_link"}

\* One step of thread th; threading.RLock: acquire waits until no other thread
\* holds the lock
LinkStep(th) ==
    \E row \in MoveToStationSteps :
        /\ lpc[th] = row[1]
        /\ lpc' = [lpc EXCEPT ![th] = row[2]]
        /\ IF row[3] = "acquire"
           THEN client_lock \in {NoReq, th} /\ client_lock' = th
           ELSE IF row[3] = "release"
                THEN client_lock' = NoReq
                ELSE UNCHANGED client_lock
        /\ UNCHANGED <<jobvars, busvars>>
        /\ UNCHANGED <<active_request_id, client_task_no, retry>>
        /\ UNCHANGED morevars

LinkNext == \E th \in ReqIds : LinkStep(th)

LinkSpec == Init /\ [][LinkNext]_vars

\* ------------------------------------------- _next_task_no, thread by thread
\* robot_client.py:36-38 as the job threads run it. 'self._task_no += 1' reads
\* the attribute, adds, and writes it back; 'return self._task_no' reads it
\* again. No lock is taken (192, 226), so another thread can run between any
\* two of these accesses.
MaxIssued == 3        \* task numbers handed out in the _next_task_no specification

\* move_to_station / execute_action reach line 192 / 226
NextTaskNoCall(th) ==
    /\ tnpc[th] = "idle"
    /\ Len(issued) + Cardinality({t \in ReqIds : tnpc[t] # "idle"}) < MaxIssued
    /\ tnpc' = [tnpc EXCEPT ![th] = "load"]
    /\ UNCHANGED <<tnreg, issued>>
    /\ UNCHANGED <<jobvars, busvars, restvars>>
    /\ UNCHANGED <<hcall, push, wait, hcall2, flowvars, charge>>

\* line 37, the read of self._task_no
NextTaskNoLoad(th) ==
    /\ tnpc[th] = "load"
    /\ tnreg' = [tnreg EXCEPT ![th] = client_task_no]
    /\ tnpc' = [tnpc EXCEPT ![th] = "store"]
    /\ UNCHANGED issued
    /\ UNCHANGED <<jobvars, busvars, restvars>>
    /\ UNCHANGED <<hcall, push, wait, hcall2, flowvars, charge>>

\* line 37, the write of the sum
NextTaskNoStore(th) ==
    /\ tnpc[th] = "store"
    /\ client_task_no' = _next_task_no(tnreg[th])
    /\ tnpc' = [tnpc EXCEPT ![th] = "return"]
    /\ UNCHANGED <<tnreg, issued>>
    /\ UNCHANGED <<jobvars, busvars>>
    /\ UNCHANGED <<active_request_id, client_lock, lpc, retry>>
    /\ UNCHANGED <<hcall, push, wait, hcall2, flowvars, charge>>

\* line 38: return self._task_no
NextTaskNoReturn(th) ==
    /\ tnpc[th] = "return"
    /\ issued' = Append(issued, [thread |-> th, task_no |-> client_task_no])
    /\ tnpc' = [tnpc EXCEPT ![th] = "idle"]
    /\ UNCHANGED tnreg
    /\ UNCHANGED <<jobvars, busvars, restvars>>
    /\ UNCHANGED <<hcall, push, wait, hcall2, flowvars, charge>>

TaskNoNext ==
    \E th \in ReqIds :
        \/ NextTaskNoCall(th)
        \/ NextTaskNoLoad(th)
        \/ NextTaskNoStore(th)
        \/ NextTaskNoReturn(th)

TaskNoSpec == Init /\ [][TaskNoNext]_vars

\* ------------------------------------------ handle() on the handler thread
\* CommandAgent.handle (command_agent.py:95-149); PlannerAgent.handle
\* (planner_agent.py:85-127) has the same steps. voice_query calls it on the
\* server's event-loop thread (voice_server.py:92-93), one call at a time.
\* hcall.busy is the job is_busy() found running, hcall.job the job
\* cancel_session_job looked up, hcall.out the AgentOutput last returned
\* (speak_text by what it says: "busy", "stop requested", "not understood",
\* "clarify", "started").
AgentOutput(kind, speak_text, request_id) ==
    [kind |-> kind, speak_text |-> speak_text, request_id |-> request_id]
\* the call's locals end with the call
Return(out) == [NoHandle EXCEPT !.out = out]
Resolutions == {"none", "clarify", "actions"}

\* handle() that cancels the session's job whenever the session is busy
HandleEnter_cancels_any_busy(session_id, is_stop_cmd) ==
    /\ hpc = "idle"
    /\ lock = None
    /\ hcall.stage = "idle"
    /\ LET res == is_busy(active_request_id[session_id], jobs)
           call == [stage |-> "check", session_id |-> session_id,
                    is_stop_cmd |-> is_stop_cmd, out |-> NoOutput,
                    busy |-> IF res.busy THEN active_request_id[session_id]
                             ELSE NoReq,
                    job |-> NoReq, request_id |-> NoReq]
       IN  /\ active_request_id' =
                 [active_request_id EXCEPT ![session_id] = res.active_request_id]
           /\ hcall' = IF res.busy
                       THEN [call EXCEPT !.stage = "cancel"]
                       ELSE [call EXCEPT !.stage = "resolve"]
    /\ UNCHANGED jobvars
    /\ UNCHANGED busvars
    /\ UNCHANGED <<client_task_no, client_lock, lpc, retry>>
    /\ UNCHANGED <<tnvars, push, wait, hcall2, flowvars, charge>>

\* handle() that goes on to resolve a stop command without cancelling
HandleEnter_skips_cancel(session_id, is_stop_cmd) ==
    /\ hpc = "idle"
    /\ lock = None
    /\ hcall.stage = "idle"
    /\ LET res == is_busy(active_request_id[session_id], jobs)
           call == [stage |-> "check", session_id |-> session_id,
                    is_stop_cmd |-> is_stop_cmd, out |-> NoOutput,
                    busy |-> IF res.busy THEN active_request_id[session_id]
                             ELSE NoReq,
                    job |-> NoReq, request_id |-> NoReq]
       IN  /\ active_request_id' =
                 [active_request_id EXCEPT ![session_id] = res.active_request_id]
           /\ hcall' = IF res.busy
                       THEN IF is_stop_cmd
                            THEN [call EXCEPT !.stage = "resolve"]
                            ELSE Return(AgentOutput("reply", "busy", NoReq))
                       ELSE [call EXCEPT !.stage = "resolve"]
    /\ UNCHANGED jobvars
    /\ UNCHANGED busvars
    /\ UNCHANGED <<client_task_no, client_lock, lpc, retry>>
    /\ UNCHANGED <<tnvars, push, wait, hcall2, flowvars, charge>>

\* command_agent.py:97-109: is_busy(); a busy session and no stop command:
\* return the 'busy' reply; a busy session and a stop command: go on to
\* cancel_session_job; a session that is not busy: go on to resolve the command
HandleEnter(session_id, is_stop_cmd) ==
    /\ hpc = "idle"
    /\ lock = None
    /\ hcall.stage = "idle"
    /\ LET res == is_busy(active_request_id[session_id], jobs)
           call == [stage |-> "check", session_id |-> session_id,
                    is_stop_cmd |-> is_stop_cmd, out |-> NoOutput,
                    busy |-> IF res.busy THEN active_request_id[session_id]
                             ELSE NoReq,
                    job |-> NoReq, request_id |-> NoReq]
       IN  /\ active_request_id' =
                 [active_request_id EXCEPT ![session_id] = res.active_request_id]
           /\ hcall' = IF res.busy
                       THEN IF is_stop_cmd
                            THEN [call EXCEPT !.stage = "cancel"]
                            ELSE Return(AgentOutput("reply", "busy", NoReq))
                       ELSE [call EXCEPT !.stage = "resolve"]
    /\ UNCHANGED jobvars
    /\ UNCHANGED busvars
    /\ UNCHANGED <<client_task_no, client_lock, lpc, retry>>
    /\ UNCHANGED <<tnvars, push, wait, hcall2, flowvars, charge>>

\* command_agent.py:106: cancel_session_job is called (job_manager.py:67-68)
HandleCancelLookup ==
    /\ hcall.stage = "cancel"
    /\ CancelLookup(hcall.session_id)
    /\ hcall' = [hcall EXCEPT
                    !.stage = "cancelling",
                    !.job = get_active_job_by_session(jobs, session_to_request,
                                                      hcall.session_id)]

\* cancel_session_job has returned
HandleCancelReturn ==
    /\ hcall.stage = "cancelling"
    /\ hpc = "idle"
    /\ hcall' = [hcall EXCEPT !.stage = "resolve"]
    /\ UNCHANGED <<jobvars, busvars, restvars, tnvars, push, wait, hcall2, flowvars, charge>>

\* command_agent.py:112-122: _llm_actions answers; no actions or a request to
\* clarify: return a reply; else go on to start a job
HandleResolve(resolution) ==
    /\ hcall.stage = "resolve"
    /\ hcall' =
          IF resolution = "actions" THEN [hcall EXCEPT !.stage = "start"]
          ELSE IF resolution = "clarify"
               THEN Return(AgentOutput("reply", "clarify", NoReq))
               ELSE IF hcall.is_stop_cmd
                    THEN Return(AgentOutput("reply", "stop requested", NoReq))
                    ELSE Return(AgentOutput("reply", "not understood", NoReq))
    /\ UNCHANGED <<jobvars, busvars, restvars, tnvars, push, wait, hcall2, flowvars, charge>>

\* command_agent.py:126-145: the request id, active_request_id, the stream,
\* and the call of start()
HandleStart ==
    /\ hcall.stage = "start"
    /\ StartSignal(hcall.session_id)
    /\ hcall' = [hcall EXCEPT !.stage = "starting",
                               !.request_id = Cardinality(DOMAIN jobs) + 1]

\* command_agent.py:149: start() has returned; return the 'job' output
HandleReturnJob ==
    /\ hcall.stage = "starting"
    /\ hpc = "idle"
    /\ hcall' = Return(AgentOutput("job", "started", hcall.request_id))
    /\ UNCHANGED <<jobvars, busvars, restvars, tnvars, push, wait, hcall2, flowvars, charge>>

HandleStep ==
    \/ \E s \in KnownSessions \cup NewSession, stop \in BOOLEAN : HandleEnter(s, stop)
    \/ HandleCancelLookup
    \/ CancelSignal
    \/ CancelMark
    \/ HandleCancelReturn
    \/ \E res \in Resolutions : HandleResolve(res)
    \/ HandleStart
    \/ StartRegister
    \/ StartThread
    \/ HandleReturnJob

\* Every job is started by handle(); the job threads run any runner
HandleNext == HandleStep \/ \E r \in ReqIds : (AnyRunnerStep(r) \/ WrapperStep(r))

HandleSpec == Init /\ [][HandleNext]_vars

\* ----------------------------------- handle() called on two threads at once
\* Nothing in CommandAgent.handle or SessionState keeps two calls for one
\* session apart: neither takes a lock around is_busy() and start(). Thread A
\* is the handler of the section above, with lines 126-127 (the request id,
\* session.active_request_id, the stream) as a step of their own before
\* start() takes the JobManager's lock. Thread B makes handle() calls with
\* commands that are no stop command and that _llm_actions resolves to no
\* operations, so B never enters start() or cancel_session_job().

\* command_agent.py:126-127: request_id = uuid4, session.active_request_id =
\* request_id, ensure_stream(request_id)
HandleClaim ==
    /\ hcall.stage = "start"
    /\ Cardinality(DOMAIN jobs) < MaxJobs
    /\ hcall' = [hcall EXCEPT !.stage = "claimed",
                               !.request_id = Cardinality(DOMAIN jobs) + 1]
    /\ active_request_id' =
          [active_request_id EXCEPT ![hcall.session_id] = Cardinality(DOMAIN jobs) + 1]
    /\ streams' = ensure_stream(streams, Cardinality(DOMAIN jobs) + 1)
    /\ UNCHANGED <<retention_max, emitted, cursor, received>>
    /\ UNCHANGED jobvars
    /\ UNCHANGED <<client_task_no, client_lock, lpc, retry>>
    /\ UNCHANGED <<tnvars, push, wait, hcall2, flowvars, charge>>

\* command_agent.py:140-145 and job_manager.py:87-95: start() builds the
\* JobInfo, takes the lock and signals the session's running job (if any)
HandleStartClaimed ==
    /\ hcall.stage = "claimed"
    /\ hpc = "idle"
    /\ lock = None
    /\ lock' = "handler"
    /\ hjob' = [request_id |-> hcall.request_id, session_id |-> hcall.session_id]
    /\ hpc' = "start_register"
    /\ jobs' = IF /\ hcall.session_id \in DOMAIN session_to_request
                  /\ session_to_request[hcall.session_id] \in DOMAIN jobs
                  /\ jobs[session_to_request[hcall.session_id]].status = "running"
               THEN [jobs EXCEPT ![session_to_request[hcall.session_id]].stop_event = TRUE]
               ELSE jobs
    /\ hcall' = [hcall EXCEPT !.stage = "starting"]
    /\ UNCHANGED <<session_to_request, jpc, jloc, cleanup_calls>>
    /\ UNCHANGED busvars
    /\ UNCHANGED restvars
    /\ UNCHANGED <<tnvars, push, wait, hcall2, flowvars, charge>>

\* thread B's call ends; result tells what the call did
Return2(result) == [hcall2 EXCEPT !.stage = "idle", !.seen = NoReq, !.result = result]

\* thread B, command_agent.py:103 into session_store.py:76-84: no
\* active_request_id: not busy; else JobManager.get (which takes the lock,
\* job_manager.py:46-48): a running job: busy, and the 'busy' reply of line
\* 109; else go on to line 87
Handle2Enter(session_id) ==
    /\ hcall2.stage = "idle"
    /\ active_request_id[session_id] # NoReq => lock = None
    /\ hcall2' =
          IF active_request_id[session_id] = NoReq
          THEN [stage |-> "resolve", session_id |-> session_id, seen |-> NoReq,
                result |-> None]
          ELSE IF /\ active_request_id[session_id] \in DOMAIN jobs
                  /\ jobs[active_request_id[session_id]].status = "running"
               THEN [stage |-> "idle", session_id |-> session_id, seen |-> NoReq,
                     result |-> "busy"]
               ELSE [stage |-> "heal", session_id |-> session_id,
                     seen |-> active_request_id[session_id], result |-> None]
    /\ UNCHANGED <<jobvars, busvars, restvars, tnvars, hcall, push, wait, flowvars, charge>>

\* thread B, session_store.py:87-92: whatever active_request_id holds by now
\* is cleared, and is_busy() returns False
Handle2Heal ==
    /\ hcall2.stage = "heal"
    /\ active_request_id' = [active_request_id EXCEPT ![hcall2.session_id] = NoReq]
    /\ hcall2' = [hcall2 EXCEPT !.stage = "resolve"]
    /\ UNCHANGED <<jobvars, busvars, tnvars, hcall, push, wait, flowvars, charge>>
    /\ UNCHANGED <<client_task_no, client_lock, lpc, retry>>

\* thread B, command_agent.py:112-122: the command was let through to
\* _llm_actions, which finds no operations in it: a reply is returned
Handle2Resolve(resolution) ==
    /\ hcall2.stage = "resolve"
    /\ hcall2' = Return2(IF resolution = "clarify" THEN "clarify"
                         ELSE "not understood")
    /\ UNCHANGED <<jobvars, busvars, restvars, tnvars, hcall, push, wait, flowvars, charge>>

Handle2Step ==
    \/ \E s \in KnownSessions \cup NewSession : Handle2Enter(s)
    \/ Handle2Heal
    \/ \E res \in Resolutions \ {"actions"} : Handle2Resolve(res)

TwoHandlersNext ==
    \/ \E s \in KnownSessions \cup NewSession, stop \in BOOLEAN : HandleEnter(s, stop)
    \/ HandleCancelLookup
    \/ CancelSignal
    \/ CancelMark
    \/ HandleCancelReturn
    \/ \E res \in Resolutions : HandleResolve(res)
    \/ HandleClaim
    \/ HandleStartClaimed
    \/ StartRegister
    \/ StartThread
    \/ HandleReturnJob
    \/ Handle2Step
    \/ \E r \in ReqIds : (AnyRunnerStep(r) \/ WrapperStep(r))

TwoHandlersSpec == Init /\ [][TwoHandlersNext]_vars

\* --------------------------------- _cleanup on the job thread, step by step
\* _cleanup (command_agent.py:135-138, planner_agent.py:117-120) runs on the
\* job thread and takes no lock: its comparison and its assignment are two
\* accesses to session.active_request_id, and the handler thread can run
\* between them.

\* command_agent.py:136: the comparison. Equal: go on to the assignment;
\* else _cleanup returns and the thread ends (job_manager.py:133-137)
CleanupCheck(r) ==
    /\ jpc[r] = "w_cleanup"
    /\ IF active_request_id[jobs[r].session_id] = r
       THEN Goto(r, "w_cleanup_clear") /\ UNCHANGED cleanup_calls
       ELSE /\ Goto(r, "done")
            /\ cleanup_calls' = [cleanup_calls EXCEPT ![r] = @ + 1]
    /\ UNCHANGED <<jobs, session_to_request, lock, hpc, hjob, jloc>>
    /\ UNCHANGED busvars
    /\ UNCHANGED restvars
    /\ UNCHANGED morevars

\* command_agent.py:137: session.active_request_id = None; the thread ends
CleanupClear(r) ==
    /\ jpc[r] = "w_cleanup_clear"
    /\ active_request_id' = [active_request_id EXCEPT ![jobs[r].session_id] = NoReq]
    /\ cleanup_calls' = [cleanup_calls EXCEPT ![r] = @ + 1]
    /\ Goto(r, "done")
    /\ UNCHANGED <<jobs, session_to_request, lock, hpc, hjob, jloc>>
    /\ UNCHANGED busvars
    /\ UNCHANGED <<client_task_no, client_lock, lpc, retry>>
    /\ UNCHANGED morevars

\* The JobManager with any runner, the handler asking is_busy(), and the
\* wrapper's on_cleanup taken step by step
CleanupNext ==
    \/ HandlerStep
    \/ \E s \in Sessions : IsBusy(s)
    \/ \E r \in ReqIds :
          \/ AnyRunnerStep(r)
          \/ WrapperReturned(r)
          \/ WrapperRaised(r)
          \/ WrapperMarkDone(r)
          \/ WrapperFinally(r)
          \/ CleanupCheck(r)
          \/ CleanupClear(r)

CleanupSpec == Init /\ [][CleanupNext]_vars

\* ------------------------------------------------- VoicePushNotifier alone
\* voice_pusher.py. push.posts is the history of the POSTs of one push: the
\* target (its index in the configured list), the attempt, what the endpoint
\* did. push.raised tells whether an error left the push.
MaxTargets == 2       \* targets configured in VOICE_PUSH_URL
PushMaxRetries == 3
PushEvents == {"plan", "fault", "completed", "failed"}
PostOutcomes == {"200", "500", "exception"}

\* voice_pusher.py:51-174: push_plan / push_fault / push_completed /
\* push_failed call _push, which returns at once when the notifier is not
\* enabled and else starts the thread of _do_push (196: the target list) and
\* returns. The push runs beside the job thread that called it; every push
\* has a thread and locals of its own, and one push is followed here.
PushCall(event_type, enabled, targets) ==
    /\ push.pc = "idle"
    /\ push' = IF enabled /\ targets >= 1
               THEN [NoPush EXCEPT !.pc = "running", !.event_type = event_type,
                                   !.targets = targets, !.url = 1]
               ELSE [NoPush EXCEPT !.pc = "done", !.event_type = event_type,
                                   !.targets = IF enabled THEN targets ELSE 0]
    /\ UNCHANGED <<jobvars, busvars, restvars, tnvars, hcall, wait, hcall2, flowvars, charge>>

\* after the POST to a target: the next target, or the end of _do_push
NextTarget(p) ==
    IF p.url < p.targets THEN [p EXCEPT !.url = @ + 1, !.attempt = 0]
    ELSE [p EXCEPT !.pc = "done"]

\* an attempt whose exception ends _do_push
PushAttempt_exception_escapes(outcome) ==
    /\ push.pc = "running"
    /\ LET posted == [push EXCEPT !.posts = Append(@, [url |-> push.url,
                                                        attempt |-> push.attempt,
                                                        outcome |-> outcome])]
       IN  push' = IF outcome = "200" THEN NextTarget(posted)
                   ELSE IF outcome = "exception"
                        THEN [posted EXCEPT !.pc = "done", !.raised = TRUE]
                        ELSE IF push.attempt < PushMaxRetries - 1
                             THEN [posted EXCEPT !.attempt = @ + 1]
                             ELSE NextTarget(posted)
    /\ UNCHANGED <<jobvars, busvars, restvars, tnvars, hcall, wait, hcall2, flowvars, charge>>

\* voice_pusher.py:200-216: one attempt: the POST; status 200 ends the
\* attempts to this target; any other status and any exception (caught at
\* 210) are followed by the next attempt, the third by the next target
PushAttempt(outcome) ==
    /\ push.pc = "running"
    /\ LET posted == [push EXCEPT !.posts = Append(@, [url |-> push.url,
                                                        attempt |-> push.attempt,
                                                        outcome |-> outcome])]
       IN  push' = IF outcome = "200" THEN NextTarget(posted)
                   ELSE IF push.attempt < PushMaxRetries - 1
                        THEN [posted EXCEPT !.attempt = @ + 1]
                        ELSE NextTarget(posted)
    /\ UNCHANGED <<jobvars, busvars, restvars, tnvars, hcall, wait, hcall2, flowvars, charge>>

\* One push of a job, beside that job's thread
PushNext ==
    \/ \E e \in PushEvents, en \in BOOLEAN, n \in 0..MaxTargets : PushCall(e, en, n)
    \/ \E o \in PostOutcomes : PushAttempt(o)
    \/ AnyRunnerStep(1)
    \/ WrapperStep(1)

PushSpec == PollInit /\ [][PushNext]_vars

\* ------------------------------------------ the SDK's wait loop, alone
\* sr_modbus_sdk.py:103-189 (wait_movement_task_finish) and 191-265
\* (wait_action_task_finish). wait.reads is the history of the register reads
\* of one call: "ok" for a read that answered, "fail" for one that raised
\* ConnectionError (read_registers_function raises nothing else, 560-626).
\* Each iteration ends in time.sleep(1): the clock is counted in iterations.
MaxWait == 11         \* longest timeout (seconds) a wait loop is called with
max_consecutive_errors == 10
WaitKinds == {"movement", "action"}
WaitTimeouts == {3, MaxWait}
\* What one iteration meets: the task still running; the status read failing;
\* the task finished with result ok / with result error; the task finished
\* and the read of the result failing; a state value that is no member of the
\* enum (MovementState(x) raises ValueError)
WaitOutcomes == {"running", "fail", "finished_ok", "finished_error",
                 "result_fail", "bad_state"}
Error(type, may_still_execute) ==
    [type |-> type, may_still_execute |-> may_still_execute]

\* line 103 / 191: the call, lines 112-116 / 200-204
WaitCall(kind, timeout) ==
    /\ wait.pc = "idle"
    /\ wait' = [NoWait EXCEPT !.pc = "loop", !.kind = kind, !.timeout = timeout]
    /\ UNCHANGED <<jobvars, busvars, restvars, tnvars, hcall, push, hcall2, flowvars, charge>>

\* an iteration that leaves the count of failures alone after a read that
\* answered
WaitIteration_never_resets(outcome) ==
    /\ wait.pc = "loop"
    /\ wait' =
          IF wait.elapsed >= wait.timeout
          THEN [wait EXCEPT !.pc = "raised",
                            !.cancels = IF wait.kind = "movement" THEN @ + 1 ELSE @,
                            !.raised = <<Error("TimeoutError", FALSE)>>]
          ELSE IF outcome = "fail"
               THEN IF wait.consecutive_errors + 1 >= max_consecutive_errors
                    THEN [wait EXCEPT !.pc = "raised",
                                      !.reads = Append(@, "fail"),
                                      !.consecutive_errors = @ + 1,
                                      !.raised = <<Error("ConnectionError", TRUE)>>]
                    ELSE [wait EXCEPT !.reads = Append(@, "fail"),
                                      !.consecutive_errors = @ + 1,
                                      !.elapsed = @ + 1]
          ELSE IF outcome = "running"
               THEN [wait EXCEPT !.reads = Append(@, "ok"),
                                 !.elapsed = @ + 1]
          ELSE IF outcome = "bad_state"
               THEN [wait EXCEPT !.pc = "raised",
                                 !.reads = Append(@, "ok"),
                                 !.raised = <<Error("ValueError", FALSE)>>]
          ELSE IF outcome = "result_fail"
               THEN IF wait.consecutive_errors + 1 >= max_consecutive_errors
                    THEN [wait EXCEPT !.pc = "raised",
                                      !.reads = Append(Append(@, "ok"), "fail"),
                                      !.consecutive_errors = @ + 1,
                                      !.raised = <<Error("ConnectionError", TRUE)>>]
                    ELSE [wait EXCEPT !.reads = Append(Append(@, "ok"), "fail"),
                                      !.consecutive_errors = @ + 1,
                                      !.elapsed = @ + 1]
          ELSE IF outcome = "finished_error"
               THEN [wait EXCEPT !.pc = "raised",
                                 !.reads = Append(Append(@, "ok"), "ok"),
                                 !.raised = <<Error("RuntimeError", FALSE)>>]
          ELSE [wait EXCEPT !.pc = "returned",
                            !.reads = Append(Append(@, "ok"), "ok")]
    /\ UNCHANGED <<jobvars, busvars, restvars, tnvars, hcall, push, hcall2, flowvars, charge>>

\* lines 118-189 / 206-265: one iteration. The timeout first (the movement
\* loop tries cancel_task, whose error it swallows, 124-128); then the status
\* read: line 137 / 219 resets the count after a read that answered; the
\* except of 171 / 247 counts a ConnectionError and raises at the 10th in a row
WaitIteration(outcome) ==
    /\ wait.pc = "loop"
    /\ wait' =
          IF wait.elapsed >= wait.timeout
          THEN [wait EXCEPT !.pc = "raised",
                            !.cancels = IF wait.kind = "movement" THEN @ + 1 ELSE @,
                            !.raised = <<Error("TimeoutError", FALSE)>>]
          ELSE IF outcome = "fail"
               THEN IF wait.consecutive_errors + 1 >= max_consecutive_errors
                    THEN [wait EXCEPT !.pc = "raised",
                                      !.reads = Append(@, "fail"),
                                      !.consecutive_errors = @ + 1,
                                      !.raised = <<Error("ConnectionError", TRUE)>>]
                    ELSE [wait EXCEPT !.reads = Append(@, "fail"),
                                      !.consecutive_errors = @ + 1,
                                      !.elapsed = @ + 1]
          ELSE IF outcome = "running"
               THEN [wait EXCEPT !.reads = Append(@, "ok"),
                                 !.consecutive_errors = 0,
                                 !.elapsed = @ + 1]
          ELSE IF outcome = "bad_state"
               THEN [wait EXCEPT !.pc = "raised",
                                 !.reads = Append(@, "ok"),
                                 !.raised = <<Error("ValueError", FALSE)>>]
          ELSE IF outcome = "result_fail"
               THEN [wait EXCEPT !.reads = Append(Append(@, "ok"), "fail"),
                                 !.consecutive_errors = 1,
                                 !.elapsed = @ + 1]
          ELSE IF outcome = "finished_error"
               THEN [wait EXCEPT !.pc = "raised",
                                 !.reads = Append(Append(@, "ok"), "ok"),
                                 !.consecutive_errors = 0,
                                 !.raised = <<Error("RuntimeError", FALSE)>>]
          ELSE [wait EXCEPT !.pc = "returned",
                            !.reads = Append(Append(@, "ok"), "ok"),
                            !.consecutive_errors = 0]
    /\ UNCHANGED <<jobvars, busvars, restvars, tnvars, hcall, push, hcall2, flowvars, charge>>

WaitNext ==
    \/ \E k \in WaitKinds, t \in WaitTimeouts : WaitCall(k, t)
    \/ \E o \in WaitOutcomes : WaitIteration(o)

WaitSpec == Init /\ [][WaitNext]_vars

\* ------------------------------------------------- event-log specification
RECURSIVE SumLen(_, _)
SumLen(f, S) ==
    IF S = {} THEN 0
    ELSE LET x == CHOOSE y \in S : TRUE IN Len(f[x]) + SumLen(f, S \ {x})

BusInit ==
    /\ retention_max \in 1..MaxRetention
    /\ streams = <<>>
    /\ emitted = [r \in AllReqs |-> <<>>]
    /\ cursor = 0
    /\ received = <<>>
    /\ JobManagerInit
    /\ SessionInit
    /\ RobotClientInit

EnsureStream(r) ==
    /\ streams' = ensure_stream(streams, r)
    /\ UNCHANGED <<retention_max, emitted, cursor, received>>
    /\ UNCHANGED jobvars
    /\ UNCHANGED restvars
    /\ UNCHANGED morevars

Emit(r, type) ==
    /\ SumLen(emitted, BusReqs) < MaxEmits
    /\ LET res == emit(streams, retention_max, r, type)
       IN  /\ streams' = res.streams
           /\ emitted' = [emitted EXCEPT ![r] = Append(@, res.ev)]
    /\ UNCHANGED <<retention_max, cursor, received>>
    /\ UNCHANGED jobvars
    /\ UNCHANGED restvars
    /\ UNCHANGED morevars

MarkDone(r) ==
    /\ streams' = mark_done(streams, r, TRUE)
    /\ UNCHANGED <<retention_max, emitted, cursor, received>>
    /\ UNCHANGED jobvars
    /\ UNCHANGED restvars
    /\ UNCHANGED morevars

\* voice_events: one poll of request 1 by a consumer that feeds next_after back
ConsumerReq == 1
DefaultLimit == 200

Poll(limit) ==
    LET res == get_events(streams, ConsumerReq, cursor, limit)
    IN   /\ streams' = res.streams
        /\ cursor' = res.next_after
        /\ received' = received \o res.events
        /\ UNCHANGED <<retention_max, emitted>>
        /\ UNCHANGED jobvars
        /\ UNCHANGED restvars
        /\ UNCHANGED morevars

BusNext ==
    \/ \E r \in BusReqs : EnsureStream(r)
    \/ \E r \in BusReqs, t \in EventTypes : Emit(r, t)
    \/ \E r \in BusReqs : MarkDone(r)
    \/ \E l \in 0..MaxLimit : Poll(l)

BusSpec == BusInit /\ [][BusNext]_vars

\* --------------------------------- one job's runner and the stream's consumer
\* As PlanSpec, with the consumer of voice_events polling the job's stream
\* (voice_server.py:98-110) and feeding next_after back.
StreamNext ==
    \/ PlanNext
    \/ \E l \in 1..MaxLimit : Poll(l)

StreamSpec == PollInit /\ [][StreamNext]_vars

\* ------------------------------------------------------ JobManager claims
Terminal == {"completed", "failed", "cancelled"}
Active(s) == get_active_job_by_session(jobs, session_to_request, s)

\* C1: at most one job with a given session_id has status 'running'.
C1_AtMostOneRunningPerSession ==
    \A a, b \in DOMAIN jobs :
        (/\ jobs[a].session_id = jobs[b].session_id
         /\ jobs[a].status = "running"
         /\ jobs[b].status = "running") => a = b

\* C2: when start() replaces a session's running job A by B, A's stop signal is
\* already set when B is registered; start() returns with B's thread started;
\* a job that is no longer its session's active job never becomes it again
\* (get_active_job_by_session never returns A after B is registered); and a
\* session's mapping is removed only by the wrapper of the job it maps to, so
\* A's wrapper finishing leaves B mapped.
C2_Preemption ==
    /\ [][\A s \in DOMAIN session_to_request :
            (/\ s \in DOMAIN session_to_request'
             /\ session_to_request'[s] # session_to_request[s]
             /\ session_to_request[s] \in DOMAIN jobs
             /\ jobs[session_to_request[s]].status = "running")
            => jobs[session_to_request[s]].stop_event]_vars
    /\ [](hpc = "idle" => \A r \in DOMAIN jobs : jpc[r] # "none")
    /\ [][\A r \in DOMAIN jobs :
            Active(jobs[r].session_id) # r
            => get_active_job_by_session(jobs', session_to_request',
                                         jobs[r].session_id) # r]_vars
    /\ [][\A s \in DOMAIN session_to_request :
            s \notin DOMAIN session_to_request'
            => /\ jpc[session_to_request[s]] = "w_finally"
               /\ jpc'[session_to_request[s]] = "w_cleanup"]_vars

C2_Witness ==
    \E a, b \in DOMAIN jobs :
        /\ a < b
        /\ jobs[a].session_id = jobs[b].session_id
        /\ jobs[a].stop_event
        /\ jobs[a].status = "completed"
        /\ jpc[a] = "done"
        /\ jpc[b] = "r_begin"
        /\ Active(jobs[b].session_id) = b

\* C3: once a job's stop signal is set, the job gets a terminal status and its
\* thread ends: a runner inside the poll loop does not go on polling.
StopSet(r) == IF r \in DOMAIN jobs THEN jobs[r].stop_event ELSE FALSE
Ended(r) == IF r \in DOMAIN jobs
            THEN jobs[r].status \in Terminal /\ jpc[r] = "done"
            ELSE FALSE

C3_CancelTerminates == \A r \in ReqIds : StopSet(r) ~> Ended(r)

C3_Witness ==
    \E r \in DOMAIN jobs :
        /\ jpc[r] = "done"
        /\ jobs[r].status = "cancelled"
        /\ Len(emitted[r]) >= 3
        /\ emitted[r][Len(emitted[r])].type = "cancelled"
        /\ \A i \in 1..Len(emitted[r]) : emitted[r][i].type # "step_done"

\* C4: done=true is on a request's stream only when its job's status is
\* terminal; on_cleanup runs after mark_done and at most once; a finished
\* thread has marked its stream done and run on_cleanup exactly once; and a
\* wrapper whose runner has returned or raised does finish.
C4_State ==
    \A r \in ReqIds :
        /\ (r \in DOMAIN streams /\ streams[r].done)
              => (r \in DOMAIN jobs /\ jobs[r].status \in Terminal)
        /\ cleanup_calls[r] <= 1
        /\ cleanup_calls[r] = 1 => jpc[r] = "done"
        /\ jpc[r] \in {"w_finally", "w_cleanup", "done"}
              => (r \in DOMAIN streams /\ streams[r].done)
        /\ jpc[r] = "done" => cleanup_calls[r] = 1

C4_WrapperAlwaysFinishes ==
    /\ []C4_State
    /\ \A r \in ReqIds : (jpc[r] \in {"w_ok", "w_exc"}) ~> (jpc[r] = "done")

C4_Witness ==
    \E a, b \in DOMAIN jobs :
        /\ jpc[a] = "done" /\ jobs[a].status = "failed" /\ jobs[a].error # None
        /\ jpc[b] = "done" /\ jobs[b].status = "completed"
        /\ jobs[b].result_text # None

\* C5: a job whose runner raised ends with status 'failed' and its error set.
C5_RaisedEndsFailed ==
    \A r \in DOMAIN jobs :
        (jpc[r] = "done" /\ hpc = "idle" /\ jobs[r].error # None)
            => jobs[r].status = "failed"

\* C6: cancel_session_job goes on to signal and mark only the running job its
\* session maps to; it then sets that job's stop signal and its status to
\* 'cancelled', and nothing else marks a job 'cancelled'; a runner returning
\* normally afterwards leaves the status 'cancelled'.
C6_Cancel ==
    /\ [][(hpc = "idle" /\ hpc' = "cancel_signal")
            => /\ hjob'.request_id = Active(hjob'.session_id)
               /\ hjob'.request_id # NoReq]_vars
    /\ [][(hpc = "cancel_mark" /\ hpc' = "idle")
            => /\ jobs'[hjob.request_id].status = "cancelled"
               /\ jobs'[hjob.request_id].stop_event]_vars
    /\ [][\A r \in DOMAIN jobs :
            (jobs[r].status # "cancelled" /\ jobs'[r].status = "cancelled")
            => (hpc = "cancel_mark" /\ hjob.request_id = r)]_vars
    /\ [][\A r \in DOMAIN jobs :
            (jobs[r].status = "cancelled" /\ jpc[r] = "w_ok" /\ jpc'[r] # "w_ok")
            => jobs'[r].status = "cancelled"]_vars

C6_Witness ==
    \E r \in DOMAIN jobs :
        /\ hpc = "idle"
        /\ jobs[r].status = "cancelled"
        /\ jobs[r].stop_event
        /\ jpc[r] = "w_ok_done"
        /\ jobs[r].result_text # None

\* ------------------------------------------------------- event-log claims
Ids(evs) == {evs[i].event_id : i \in 1..Len(evs)}
StrictlyIncreasing(evs) ==
    \A i \in 1..(Len(evs) - 1) : evs[i].event_id < evs[i + 1].event_id
Retained(r) == IF r \in DOMAIN streams THEN streams[r].events ELSE <<>>

\* C7: per request, emit() hands out the ids 1, 2, 3, ... in append order; the
\* ids held in the stream and returned by any get_events call are strictly
\* increasing; a retained or returned event is the event emit() appended under
\* that id (never changed, never reordered).
C7_IdsIncreasingAndStable ==
    \A r \in BusReqs :
        /\ \A i \in 1..Len(emitted[r]) : emitted[r][i].event_id = i
        /\ r \in DOMAIN streams => streams[r].last_event_id = Len(emitted[r])
        /\ StrictlyIncreasing(Retained(r))
        /\ \A i \in 1..Len(Retained(r)) :
              /\ Retained(r)[i].event_id \in 1..Len(emitted[r])
              /\ Retained(r)[i] = emitted[r][Retained(r)[i].event_id]
        /\ \A a \in Afters, l \in Limits :
              LET got == get_events(streams, r, a, l).events
              IN  /\ StrictlyIncreasing(got)
                  /\ \A i \in 1..Len(got) :
                        /\ got[i].event_id \in 1..Len(emitted[r])
                        /\ got[i] = emitted[r][got[i].event_id]

C7_Witness ==
    \E r \in BusReqs :
        /\ Len(emitted[r]) > retention_max
        /\ Len(emitted[r]) >= 3
        /\ \E i, j \in 1..Len(emitted[r]) : emitted[r][i].type # emitted[r][j].type
        /\ Len(received) >= 2

\* What get_events is to return, stated on sets: the retained events with
\* event_id > after, and how many of them a given 'limit' lets through.
Matching(r, a) == {e \in {Retained(r)[i] : i \in 1..Len(Retained(r))} :
                      e.event_id > a}
IsOldestOf(got, M, n) ==
    LET G == {got[i] : i \in 1..Len(got)}
    IN  /\ StrictlyIncreasing(got)
        /\ Len(got) = n
        /\ G \subseteq M
        /\ \A e \in M \ G : \A g \in G : g.event_id < e.event_id
ResultFrame(res, r, a) ==
    /\ res.streams = streams
    /\ res.done = (r \in DOMAIN streams /\ streams[r].done)
    /\ res.next_after = (IF res.events = <<>> THEN a
                         ELSE res.events[Len(res.events)].event_id)
    /\ r \notin DOMAIN streams => res.events = <<>> /\ res.done = FALSE

\* C8 as claimed: for every limit >= 0 the result is the first 'limit' of the
\* retained events with event_id > after.
C8_TruncatedToLimit ==
    \A r \in BusReqs, a \in Afters, l \in 0..MaxLimit :
        LET res == get_events(streams, r, a, l)
            M == Matching(r, a)
        IN  /\ ResultFrame(res, r, a)
            /\ IsOldestOf(res.events, M, Min(l, Cardinality(M)))

\* C8 as amended: get_events returns the retained events with event_id > after,
\* oldest first: the first 'limit' of them when limit >= 1, all of them when
\* limit = 0 (no cap), all but the last |limit| when limit < 0; with the
\* stream's done flag and next_after = the last returned id (or 'after' when
\* nothing is returned). The stream table is left as it was, and an unknown
\* request gets (empty, false, after) and no stream.
C8_Allowed(l, m) ==
    IF l >= 1 THEN Min(l, m) ELSE IF l = 0 THEN m ELSE Max(m + l, 0)

C8_GetEventsResult ==
    \A r \in BusReqs, a \in Afters, l \in Limits :
        LET res == get_events(streams, r, a, l)
            M == Matching(r, a)
        IN  /\ ResultFrame(res, r, a)
            /\ IsOldestOf(res.events, M, C8_Allowed(l, Cardinality(M)))

C8_Witness ==
    /\ ConsumerReq \in DOMAIN streams
    /\ Len(streams[ConsumerReq].events) >= 3
    /\ streams[ConsumerReq].done
    /\ \E r \in BusReqs : r \notin DOMAIN streams
    /\ Len(received) >= 1
    /\ Len(received) < Len(emitted[ConsumerReq])

\* C9: with retention cap c, after n emits the stream holds exactly the
\* min(n, c) most recent events, ids n-min(n,c)+1 .. n; with c = 3 and n = 5 a
\* get_events(R, after=0) returns the ids 3, 4, 5 and next_after = 5.
C9_RetainsMostRecent ==
    \A r \in DOMAIN streams :
        LET n == Len(emitted[r])
            k == Min(n, retention_max)
            res == get_events(streams, r, 0, DefaultLimit)
        IN  /\ Len(streams[r].events) = k
            /\ \A i \in 1..k : streams[r].events[i] = emitted[r][n - k + i]
            /\ (retention_max = 3 /\ n = 5) =>
                  /\ [i \in 1..Len(res.events) |-> res.events[i].event_id] = <<3, 4, 5>>
                  /\ res.next_after = 5

C9_Witness ==
    /\ retention_max = 3
    /\ \E r \in DOMAIN streams : Len(emitted[r]) = 5

\* C10: the consumer that feeds next_after back receives every event at most
\* once, in strictly increasing event_id order and as it was emitted; an id at
\* or below its cursor that it never received is no longer retained (it was
\* dropped by the cap before the poll that passed it); the cursor never moves
\* backwards.
C10_ConsumerState ==
    /\ StrictlyIncreasing(received)
    /\ \A i \in 1..Len(received) :
          /\ received[i].event_id \in 1..Len(emitted[ConsumerReq])
          /\ received[i] = emitted[ConsumerReq][received[i].event_id]
    /\ Ids(received) \subseteq 1..cursor
    /\ \A i \in 1..cursor :
          i \in Ids(received) \/ i \notin Ids(Retained(ConsumerReq))

C10_ConsumerOrder == [](C10_ConsumerState) /\ [][cursor' >= cursor]_vars

C10_Witness ==
    /\ Len(received) >= 3
    /\ \E i \in 1..cursor : i \notin Ids(received)
    /\ cursor < Len(emitted[ConsumerReq])

\* ------------------------------------------------ claims C11 .. C20
\* C11: mark_done(request_id) leaves the same stream table whether it is called
\* once or twice: the request's stream exists with done = true, its events and
\* last_event_id are what they were (empty and 0 for a stream it creates), and
\* no other stream changes; ensure_stream on an existing stream changes nothing.
C11_MarkDoneIdempotent ==
    \A r \in BusReqs :
        LET once == mark_done(streams, r, TRUE)
            twice == mark_done(once, r, TRUE)
        IN  /\ twice = once
            /\ DOMAIN once = DOMAIN streams \cup {r}
            /\ once[r].done = TRUE
            /\ once[r].events = Retained(r)
            /\ once[r].last_event_id = Len(emitted[r])
            /\ \A q \in DOMAIN streams \ {r} : once[q] = streams[q]
            /\ r \in DOMAIN streams => ensure_stream(streams, r) = streams
            /\ ensure_stream(once, r) = once

C11_Witness ==
    \E r, q \in DOMAIN streams :
        /\ streams[r].done /\ Len(streams[r].events) >= 2
        /\ streams[q].done /\ emitted[q] = <<>>

\* C12: is_busy() on a session whose active_request_id names a job that is not
\* registered or not 'running' returns false and clears active_request_id;
\* when the named job is 'running' it returns true and changes nothing; when
\* active_request_id is unset it returns false and changes nothing. And the
\* handler's is_busy() call clears a session's reference only when it is stale.
Stale(a) == a # NoReq /\ ~(a \in DOMAIN jobs /\ jobs[a].status = "running")

C12_IsBusyContract ==
    \A a \in 0..(MaxJobs + 1) :
        LET res == is_busy(a, jobs)
        IN  /\ a = NoReq => res = [busy |-> FALSE, active_request_id |-> NoReq]
            /\ (a # NoReq /\ ~Stale(a)) => res = [busy |-> TRUE, active_request_id |-> a]
            /\ Stale(a) => res = [busy |-> FALSE, active_request_id |-> NoReq]

C12_IsBusySelfHeals ==
    /\ []C12_IsBusyContract
    /\ [][\A s \in Sessions :
            (/\ hpc = "idle" /\ hpc' = "idle" /\ cleanup_calls' = cleanup_calls
             /\ active_request_id'[s] # active_request_id[s])
            => (active_request_id'[s] = NoReq /\ Stale(active_request_id[s]))]_vars

C12_Witness ==
    \E r \in DOMAIN jobs :
        /\ hpc = "idle"
        /\ jobs[r].status \in Terminal
        /\ cleanup_calls[r] = 0
        /\ active_request_id[jobs[r].session_id] = NoReq
        /\ \A q \in DOMAIN jobs : q # r => jobs[q].session_id # jobs[r].session_id

\* C13: a status read showing 'finished' with a task number other than the one
\* this call issued is not a completion: check_done answers false for it (the
\* number a polling call holds is never 0), and the poll step that reads it
\* emits no step_done and goes on polling.
InPollLoop(r) == jpc[r] \in {"poll_top", "poll_query"}

C13_CheckDoneByNumber ==
    \A r \in ReqIds :
        InPollLoop(r) =>
            /\ jloc[r].task_no > FirstTaskNo
            /\ \A n \in 0..(client_task_no + 1), res \in {"ok", "error"} :
                  n # jloc[r].task_no =>
                     check_done(MovementTask("finished", n, res), jloc[r].task_no)
                        = "false"

C13_StaleFinishedIgnored ==
    /\ []C13_CheckDoneByNumber
    /\ [][\A r \in ReqIds : \A t \in Reads(jloc[r].task_no) :
            (PollQuery(r, t) /\ t.state = "finished" /\ t.no # jloc[r].task_no)
            => /\ jpc'[r] = "poll_top"
               /\ \A i \in 1..Len(emitted'[r]) :
                     emitted'[r][i].type = "step_done" => i <= Len(emitted[r])]_vars
    /\ [][\A r \in ReqIds :
            (Len(emitted'[r]) > Len(emitted[r])
             /\ emitted'[r][Len(emitted'[r])].type = "step_done")
            => jpc[r] = "poll_query" /\ jpc'[r] = "r_next"]_vars

C13_Witness ==
    \E r \in DOMAIN jobs :
        /\ jpc[r] = "poll_top"
        /\ jloc[r].elapsed >= 1
        /\ jloc[r].status.state = "finished"
        /\ jloc[r].status.no # jloc[r].task_no
        /\ \A i \in 1..Len(emitted[r]) : emitted[r][i].type # "step_done"

\* C14: a polling call whose controller does not report its task finished
\* before timeout_s has elapsed raises TimeoutError, and a controller-level
\* cancel has been issued by the call before the error reaches its caller.
C14_TimeoutCancelsTask ==
    \A r \in ReqIds :
        (jpc[r] = "r_error" /\ jloc[r].exc = "TimeoutError")
            => jloc[r].cancels >= 1

\* C15: a status read showing 'finished' with result 'error' for the task
\* number this call issued ends the poll loop on that iteration with a
\* task-execution error: the call is never found polling on after such a read.
C15_TaskErrorRaised ==
    \A r \in ReqIds :
        InPollLoop(r) =>
            ~(/\ jloc[r].status.state = "finished"
              /\ jloc[r].status.no = jloc[r].task_no
              /\ jloc[r].status.result = "error")

\* C16: _retry_on_modbus_error calls the wrapped operation at most max_retries
\* (3) times; only a transient failure is followed by another call; a call
\* that succeeds (after 0, 1 or 2 transient failures) ends it with that result
\* and no error; a non-transient failure ends it at once with that error; and
\* the third transient failure ends it with that last error.
TransientFailure(o) == ~o.ok /\ is_transient(o.msg)

C17_ReadFailureEscalated ==
    \A r \in ReqIds : InPollLoop(r) => jloc[r].status # ReadError

\* C18: every poll iteration looks at the cancel signal first: an iteration
\* that starts with the signal set goes to the controller cancel, also when the
\* timeout is due, and a status read is only ever started by an iteration that
\* found the signal clear. So from the signal being set the loop finishes at
\* most the iteration in progress, for every timeout_s.
C18_CancelCheckedFirst ==
    /\ [][\A r \in DOMAIN jobs :
            (jpc[r] = "poll_top" /\ jobs[r].stop_event /\ jpc'[r] # "poll_top")
            => jpc'[r] = "poll_cancel"]_vars
    /\ [][\A r \in DOMAIN jobs :
            (jpc[r] # "poll_query" /\ jpc'[r] = "poll_query")
            => (jpc[r] = "poll_top" /\ ~jobs[r].stop_event
                /\ jloc[r].elapsed < jloc[r].timeout_s)]_vars
    /\ [][\A r \in DOMAIN jobs :
            (jpc[r] = "poll_query" /\ jpc'[r] # "poll_query")
            => jpc'[r] \in {"poll_top", "r_next"}]_vars

C18_Witness ==
    \E r \in DOMAIN jobs :
        /\ jpc[r] = "poll_cancel"
        /\ jobs[r].stop_event
        /\ Len(emitted[r]) >= 3
        /\ emitted[r][Len(emitted[r])].type = "progress"

\* C19: a poll loop that has seen the cancel signal issues the controller
\* cancel and then always ends with InterruptedError, whether or not the cancel
\* write succeeded; the runner answers InterruptedError with a 'cancelled'
\* event and a normal return, so the wrapper does not record 'failed'.
C19_CancelEndsInterrupted ==
    /\ [][\A r \in DOMAIN jobs :
            (jpc[r] = "poll_cancel" /\ jpc'[r] # "poll_cancel")
            => /\ jloc'[r].cancels = jloc[r].cancels + 1
               /\ jpc'[r] = "r_interrupted"
               /\ jloc'[r].exc = "InterruptedError"]_vars
    /\ [][\A r \in DOMAIN jobs :
            (jpc[r] = "r_interrupted" /\ jpc'[r] # "r_interrupted")
            => /\ jpc'[r] = "w_ok"
               /\ emitted'[r] = Append(emitted[r], emitted'[r][Len(emitted'[r])])
               /\ emitted'[r][Len(emitted'[r])].type = "cancelled"]_vars
    /\ [][\A r \in DOMAIN jobs :
            (jobs[r].status # "failed" /\ jobs'[r].status = "failed")
            => jpc[r] = "w_exc"]_vars

\* C20: every call of RobotClient into the link is made while holding the
\* client's lock, so no two threads are inside a link call at the same time.
C20_LinkCallsExclusive ==
    \A a, b \in ReqIds : (InLink(a) /\ InLink(b)) => a = b

\* ------------------------------------------------ claims C21 .. C30
\* C21: the task numbers one RobotClient hands out are strictly increasing in
\* issue order, hence pairwise distinct, also when two job threads are inside
\* _next_task_no at the same time.
C21_TaskNumbersIncreasing ==
    \A i, j \in 1..Len(issued) : i < j => issued[i].task_no < issued[j].task_no

\* C22: handle() called on a busy session with a command that is not a stop
\* command returns a reply at once and changes nothing else: no job is
\* registered or started, no stop signal set, no job status changed, no stream
\* created or appended to, active_request_id as it was, nothing sent to the
\* controller; the handler is not left inside any JobManager call.
SessionBusy(s) ==
    /\ active_request_id[s] # NoReq
    /\ active_request_id[s] \in DOMAIN jobs
    /\ jobs[active_request_id[s]].status = "running"

C22_BusyRejectedUnchanged ==
    [][\A s \in Sessions :
         (HandleEnter(s, FALSE) /\ SessionBusy(s))
         => /\ hcall'.stage = "idle"
            /\ hcall'.out = AgentOutput("reply", "busy", NoReq)
            /\ jobs' = jobs
            /\ session_to_request' = session_to_request
            /\ jpc' = jpc
            /\ hpc' = "idle"
            /\ lock' = lock
            /\ streams' = streams
            /\ emitted' = emitted
            /\ active_request_id' = active_request_id
            /\ client_task_no' = client_task_no
            /\ lpc' = lpc]_vars

C22_Witness ==
    /\ hcall.stage = "idle"
    /\ hcall.out = AgentOutput("reply", "busy", NoReq)
    /\ \E r \in DOMAIN jobs :
          /\ jobs[r].status = "running"
          /\ ~jobs[r].stop_event
          /\ active_request_id[jobs[r].session_id] = r
    /\ Cardinality(DOMAIN jobs) = 1
    /\ Cardinality(DOMAIN streams) = 1

\* C23: handle() called on a busy session with a stop command calls
\* cancel_session_job before anything else: the job it finds running gets its
\* stop signal set and its status set to 'cancelled' by that call, and only a
\* job that ended by itself in the meantime is not found; the command is
\* resolved only after that call has returned, when the session has no running
\* job any more; a job is registered only by the start() that follows a
\* resolution into operations; and a command that resolves to no operations
\* ends the call with a reply and starts nothing.
InCancel == hcall.stage \in {"cancel", "cancelling"}

C23_StopCancelsFirst ==
    /\ [][\A s \in Sessions :
            (HandleEnter(s, TRUE) /\ SessionBusy(s))
            => /\ hcall'.stage = "cancel"
               /\ hcall'.busy = active_request_id[s]
               /\ jobs' = jobs /\ hpc' = "idle"]_vars
    /\ [][(hcall.stage = "cancel" /\ hcall'.stage # "cancel")
            => /\ hcall'.stage = "cancelling"
               /\ hcall'.job = Active(hcall.session_id)
               /\ hcall'.job \in {NoReq, hcall.busy}
               /\ hcall'.job = NoReq => jobs[hcall.busy].status \in Terminal]_vars
    /\ [][(hcall.stage = "cancelling" /\ hpc = "cancel_mark" /\ hpc' # hpc)
            => /\ hjob.request_id = hcall.job
               /\ jobs'[hcall.job].stop_event
               /\ jobs'[hcall.job].status = "cancelled"]_vars
    /\ [][(InCancel /\ ~InCancel')
            => /\ hcall'.stage = "resolve"
               /\ hpc = "idle"
               /\ Active(hcall.session_id) = NoReq
               /\ jobs[hcall.busy].status \in Terminal
               /\ hcall.job # NoReq => jobs[hcall.job].stop_event
               /\ DOMAIN jobs' = DOMAIN jobs]_vars
    /\ [](InCancel => hcall.request_id = NoReq)
    /\ [][DOMAIN jobs' # DOMAIN jobs
            => /\ hcall.stage = "starting"
               /\ DOMAIN jobs' = DOMAIN jobs \cup {hcall.request_id}]_vars
    /\ [][(hcall.stage # "starting" /\ hcall'.stage = "starting")
            => hcall.stage = "start"]_vars
    /\ [][(hcall.stage # "start" /\ hcall'.stage = "start")
            => hcall.stage = "resolve"]_vars
    /\ [][\A res \in Resolutions \ {"actions"} :
            HandleResolve(res)
            => /\ hcall'.stage = "idle"
               /\ hcall'.out.kind = "reply"
               /\ UNCHANGED <<jobs, session_to_request, jpc, hpc, streams,
                              active_request_id>>]_vars

C23_Witness ==
    /\ hcall.stage = "idle"
    /\ hcall.out = AgentOutput("reply", "stop requested", NoReq)
    /\ Cardinality(DOMAIN jobs) = 1
    /\ \E r \in DOMAIN jobs :
          /\ jobs[r].status = "cancelled"
          /\ jobs[r].stop_event
          /\ jpc[r] = "r_begin"

\* C24: a runner starts an operation only from the loop header, with the stop
\* signal clear and operations left, and the list shrinks by one per completed
\* operation (in order); an operation that fails ends the loop: 'failed' is
\* emitted, the error goes to the wrapper, and no operation is issued to the
\* controller afterwards.
Issues(r) == Cardinality({i \in 1..Len(emitted[r]) : emitted[r][i].type = "started"})

C24_StopsAtFirstFailure ==
    /\ [][\A r \in DOMAIN jobs :
            (jpc[r] # "op_issue" /\ jpc'[r] = "op_issue")
            => (jpc[r] = "r_next" /\ ~jobs[r].stop_event /\ jloc[r].ops >= 1)]_vars
    /\ [][\A r \in DOMAIN jobs :
            (jpc[r] \notin {"r_begin", "r_interrupted", "r_error"}
             /\ jloc'[r].ops # jloc[r].ops)
            => /\ jloc'[r].ops = jloc[r].ops - 1
               /\ jpc[r] = "poll_query" /\ jpc'[r] = "r_next"]_vars
    /\ [][\A r \in DOMAIN jobs :
            (jpc[r] = "r_error" /\ jpc'[r] # "r_error")
            => /\ jpc'[r] = "w_exc"
               /\ emitted'[r] = Append(emitted[r], emitted'[r][Len(emitted'[r])])
               /\ emitted'[r][Len(emitted'[r])].type = "failed"]_vars
    /\ [][\A r \in DOMAIN jobs :
            jpc[r] \in {"r_error", "w_exc", "w_exc_done", "w_finally", "w_cleanup", "done"}
            => /\ jpc'[r] \notin {"op_issue", "poll_top", "poll_query", "poll_cancel",
                                 "r_next"}
               /\ client_task_no' = client_task_no
               /\ Issues(r)' = Issues(r)]_vars

\* C24 (its last part): the job of a runner whose operation failed ends with
\* status 'failed'.
C24_FailedJobEndsFailed ==
    \A r \in DOMAIN jobs :
        (/\ jpc[r] = "done"
         /\ hpc = "idle"
         /\ emitted[r] # <<>>
         /\ emitted[r][Len(emitted[r])].type = "failed")
        => jobs[r].status = "failed"

\* C24 as claimed: the runner stops at the first failing operation, and the job
\* ends with status 'failed'.
C24_RunnerStopsAndJobFails ==
    /\ C24_StopsAtFirstFailure
    /\ []C24_FailedJobEndsFailed

\* C25: a push never raises, whatever the endpoints answer; each configured
\* target gets at most 3 POSTs, numbered 0, 1, 2, and none after its first
\* HTTP 200; once the push has ended every target was tried, each until its
\* 200 or its third failure, so a failing target does not keep the later ones
\* from being tried; a notifier that is not enabled posts nothing; and no step
\* of a push changes a job or an event stream.
PostsTo(u) == SelectSeq(push.posts, LAMBDA x : x.url = u)
Served(u) ==
    LET ps == PostsTo(u)
    IN  /\ ps # <<>>
        /\ ps[Len(ps)].outcome = "200" \/ Len(ps) = PushMaxRetries

C25_PushState ==
    /\ ~push.raised
    /\ PushMaxRetries = 3
    /\ \A i \in 1..Len(push.posts) : push.posts[i].url \in 1..push.targets
    /\ \A i \in 1..(Len(push.posts) - 1) : push.posts[i].url <= push.posts[i + 1].url
    /\ \A u \in 1..MaxTargets :
          LET ps == PostsTo(u)
          IN  /\ Len(ps) <= PushMaxRetries
              /\ \A k \in 1..Len(ps) : ps[k].attempt = k - 1
              /\ \A k \in 1..(Len(ps) - 1) : ps[k].outcome # "200"
    /\ push.pc = "running" => \A u \in 1..(push.url - 1) : Served(u)
    /\ push.pc = "done" => \A u \in 1..push.targets : Served(u)
    /\ push.pc = "idle" => push.posts = <<>>

MappedRunning(s) ==
    /\ s \in DOMAIN session_to_request
    /\ session_to_request[s] \in DOMAIN jobs
    /\ jobs[session_to_request[s]].status = "running"

C26_LookupContract ==
    \A s \in Sessions :
        LET job == get_active_job_by_session(jobs, session_to_request, s)
        IN  /\ job # NoReq <=> MappedRunning(s)
            /\ job # NoReq => job = session_to_request[s]
            /\ (s \in DOMAIN session_to_request
                /\ jobs[session_to_request[s]].status \in Terminal) => job = NoReq
            /\ s \notin DOMAIN session_to_request => job = NoReq
            /\ \A q \in 1..(MaxJobs + 1) :
                  q \notin DOMAIN jobs =>
                     get_active_job_by_session(jobs, (s :> q) @@ session_to_request, s)
                        = NoReq

C26_ActiveJobLookup ==
    /\ []C26_LookupContract
    /\ [][\A s \in Sessions :
            CancelLookup(s)
            => /\ UNCHANGED <<jobs, session_to_request, jpc, streams>>
               /\ hpc' # "idle" =>
                     /\ hjob'.request_id = session_to_request[s]
                     /\ jobs[hjob'.request_id].status = "running"]_vars

C26_Witness ==
    \E a, b \in DOMAIN jobs :
        /\ jobs[a].session_id # jobs[b].session_id
        /\ {jobs[a].session_id, jobs[b].session_id} \subseteq DOMAIN session_to_request
        /\ session_to_request[jobs[a].session_id] = a
        /\ jobs[a].status = "cancelled"
        /\ session_to_request[jobs[b].session_id] = b
        /\ jobs[b].status = "running"
        /\ hpc = "cancel_signal"
        /\ hjob.request_id = b

\* C27: move_to_station queries the controller before anything else; when the
\* answer shows a task running, cancel_current_task is called next, before the
\* command; whatever the query and the cancel do (an error included), the next
\* step takes a new task number and writes the command: nothing of the
\* pre-check reaches the runner as an error.
InPrecheck(r) == jpc[r] \in {"mv_precheck", "mv_precancel"}

C27_PrecheckBestEffort ==
    /\ [][\A r \in DOMAIN jobs :
            (jpc[r] # "mv_precheck" /\ jpc'[r] = "mv_precheck")
            => (jpc[r] = "r_next" /\ jloc[r].pre = "none" /\ jloc[r].cancels = 0)]_vars
    /\ [][\A r \in DOMAIN jobs : \A info \in PreReads :
            MovePrecheck(r, info)
            => /\ (info # ReadError /\ info.state = "running") =>
                     jpc'[r] = "mv_precancel"
               /\ (info = ReadError \/ info.state # "running") =>
                     jpc'[r] = "op_issue"
               /\ client_task_no' = client_task_no]_vars
    /\ [][\A r \in DOMAIN jobs :
            (jpc[r] = "mv_precancel" /\ jpc'[r] # "mv_precancel")
            => /\ jpc'[r] = "op_issue"
               /\ jloc'[r].cancels = jloc[r].cancels + 1
               /\ client_task_no' = client_task_no]_vars
    /\ [][\A r \in DOMAIN jobs :
            (jpc[r] = "op_issue" /\ jpc'[r] # "op_issue")
            => /\ client_task_no' = client_task_no + 1
               /\ jloc[r].pre # "running"
               /\ jloc[r].pre \in {"cancelled", "cancel failed"} => jloc[r].cancels = 1
               /\ jpc'[r] = "poll_top" => jloc'[r].task_no = client_task_no']_vars
    /\ [](\A r \in DOMAIN jobs :
            /\ jpc[r] = "mv_precancel" <=> jloc[r].pre = "running"
            /\ (jpc[r] = "r_error" /\ jloc[r].pre # "none") =>
                  jloc[r].exc = "write error")

C27_Witness ==
    \E r \in DOMAIN jobs :
        /\ jpc[r] = "poll_top"
        /\ jloc[r].pre = "cancel failed"
        /\ jloc[r].cancels = 1
        /\ jloc[r].task_no = FirstTaskNo + 1
        /\ jloc[r].elapsed = 0
        /\ ~jobs[r].stop_event

\* ---- C28
\* the number of failed reads at the end of the history of reads
RECURSIVE TrailingFails(_)
TrailingFails(reads) ==
    IF reads = <<>> \/ reads[Len(reads)] # "fail" THEN 0
    ELSE 1 + TrailingFails(SubSeq(reads, 1, Len(reads) - 1))

WaitRaised(type) == wait.raised # <<>> /\ wait.raised[1].type = type

\* Inside the loop the count is the number of reads that have failed since
\* the last read that answered, and is below 10; a ConnectionError reaches
\* the caller only with 10 failed reads in a row behind it and says that the
\* task may still be executing; the loop never runs past its timeout.
C28_WaitState ==
    /\ wait.pc = "loop" =>
          /\ wait.consecutive_errors = TrailingFails(wait.reads)
          /\ wait.consecutive_errors < max_consecutive_errors
          /\ wait.elapsed <= wait.timeout
    /\ WaitRaised("ConnectionError") =>
          /\ TrailingFails(wait.reads) = max_consecutive_errors
          /\ wait.raised[1].may_still_execute
    /\ wait.pc = "raised" /\ TrailingFails(wait.reads) < max_consecutive_errors
          => ~WaitRaised("ConnectionError")

\* C28: in the SDK wait loop a connection error is raised only after 10
\* consecutive failed reads, a read that answers resets the count to zero,
\* the error says the task may still be executing, and the timeout is
\* enforced while reads fail: an iteration that starts at or after the
\* timeout raises TimeoutError whatever the reads do, and every iteration
\* that continues the loop, failed reads included, moves the clock on.
C28_WaitLoop ==
    /\ []C28_WaitState
    /\ [][wait.pc = "loop" =>
            /\ wait.elapsed >= wait.timeout =>
                  wait'.raised = <<Error("TimeoutError", FALSE)>>
            /\ wait'.pc = "loop" => wait'.elapsed = wait.elapsed + 1
            /\ Len(wait'.reads) > Len(wait.reads)
                 /\ wait'.reads[Len(wait'.reads)] = "ok"
                 /\ wait'.pc = "loop" => wait'.consecutive_errors = 0]_vars

\* a read answered, then 10 reads in a row failed and the ConnectionError
\* was raised
C28_Witness ==
    /\ WaitRaised("ConnectionError")
    /\ Len(wait.reads) = max_consecutive_errors + 1
    /\ wait.reads[1] = "ok"

\* the timeout ended a loop whose last reads were failing
C28_TimeoutWhileFailing ==
    /\ WaitRaised("TimeoutError")
    /\ TrailingFails(wait.reads) > 0
    /\ wait.timeout = MaxWait

\* ---- C29
\* session s has a job that start() has registered, whose status is still
\* 'running' and whose runner has not returned or raised yet
RunnerUnfinished(r) ==
    jpc[r] \notin {"w_ok", "w_exc", "w_ok_done", "w_exc_done", "w_finally",
                   "w_cleanup", "done"}
JobInProgress(s) ==
    \E r \in DOMAIN jobs : /\ jobs[r].session_id = s
                           /\ jobs[r].status = "running"
                           /\ RunnerUnfinished(r)

\* C29: while a job that handle() started for a session is running and its
\* runner has not finished, every is_busy() of that session returns true and a
\* command that is no stop command gets the 'busy' reply, also when handle()
\* calls of two threads interleave: thread A's handle() entered with such a
\* command returns the reply at once, and thread B's is_busy() never returns
\* False (never lets the command through to be resolved).
C29_BusyUntilRunnerFinished ==
    [][\A s \in Sessions :
         JobInProgress(s) =>
            /\ HandleEnter(s, FALSE) =>
                  /\ hcall'.stage = "idle"
                  /\ hcall'.out = AgentOutput("reply", "busy", NoReq)
            /\ (hcall2'.session_id = s /\ hcall2'.stage # hcall2.stage)
                  => hcall2'.stage # "resolve"]_vars

\* ---- C30
\* C30: a job's status changes at most once: a registered job starts as
\* 'running', a step that changes its status takes it from 'running' to one of
\* completed / failed / cancelled, and a terminal status is never replaced by
\* another status, whatever the interleaving of cancel_session_job with the
\* job thread.
C30_StatusChangesOnce ==
    [][\A r \in DOMAIN jobs :
         jobs'[r].status # jobs[r].status
            => (jobs[r].status = "running" /\ jobs'[r].status \in Terminal)]_vars

\* ------------------------------------------------ claims C31 .. C38
\* ---- C31
\* the runner of job r emitted an event of this type
Emitted(r, type) == \E i \in 1..Len(emitted[r]) : emitted[r][i].type = type

\* C31: a job whose runner stopped early because its cancel signal was raised
\* (the runner emitted 'cancelled') never ends with status 'completed': once
\* its thread has ended and no cancel_session_job is under way, its status is
\* not 'completed'.
C31_CancelledNeverCompleted ==
    \A r \in DOMAIN jobs :
        (Emitted(r, "cancelled") /\ jpc[r] = "done" /\ hpc = "idle")
        => jobs[r].status # "completed"

\* ---- C32
\* job r's thread takes the step
ThreadStep(r) == jpc'[r] # jpc[r] /\ jpc[r] \notin {"none"}

\* C32: the cleanup of a job never clears state of a newer job of its session:
\* no step of job r's thread removes or changes a session->request mapping
\* that names another job, and none changes a session's active_request_id
\* that names another job.
C32_CleanupLeavesNewerJob ==
    [][\A r \in DOMAIN jobs : ThreadStep(r) =>
         \A s \in Sessions :
            /\ (s \in DOMAIN session_to_request /\ session_to_request[s] # r)
                  => /\ s \in DOMAIN session_to_request'
                     /\ session_to_request'[s] = session_to_request[s]
            /\ active_request_id[s] \notin {r, NoReq}
                  => active_request_id'[s] = active_request_id[s]]_vars

\* ---- C33
TerminalTypes == {"completed", "failed", "cancelled"}
RunnerEnded(r) ==
    jpc[r] \in {"w_ok", "w_exc", "w_ok_done", "w_exc_done", "w_finally",
                "w_cleanup", "done"}

\* C33: the events of a job hold exactly one event of a terminal type
\* (completed, failed, cancelled), and it is the last one: an event of such a
\* type is the last event emitted and the runner has ended with it, and a
\* runner that has ended has emitted one; so no 'completed' or 'failed' comes
\* before the job's last operation has ended, and no 'failed' comes before a
\* 'cancelled'.
C33_OneTerminalEventLast ==
    \A r \in DOMAIN jobs :
        /\ \A i \in 1..Len(emitted[r]) :
              emitted[r][i].type \in TerminalTypes
              => (i = Len(emitted[r]) /\ RunnerEnded(r))
        /\ RunnerEnded(r) => LastType(r) \in TerminalTypes

\* ---- C34
\* C34: once a job's stream is done nothing is appended to it (no event is
\* emitted for the request and its stream stays as it is); so a get_events
\* result for the consumer's cursor with done = true and fewer than 'limit'
\* events ends with the last event ever emitted for the request: after that
\* poll the consumer holds the job's final event and its cursor is at the
\* stream's last event id.
C34_DoneResultIsFinal ==
    \A limit \in 1..MaxLimit :
        LET res == get_events(streams, ConsumerReq, cursor, limit)
        IN  (res.done /\ Len(res.events) < limit) =>
               /\ res.next_after = Len(emitted[ConsumerReq])
               /\ emitted[ConsumerReq] # <<>> =>
                     LET all == received \o res.events
                     IN  /\ all # <<>>
                         /\ all[Len(all)] = emitted[ConsumerReq][Len(emitted[ConsumerReq])]

C34_NothingAfterDone ==
    /\ []C34_DoneResultIsFinal
    /\ [][\A r \in DOMAIN streams :
            streams[r].done => /\ emitted'[r] = emitted[r]
                               /\ streams'[r] = streams[r]]_vars

\* the consumer has polled a stream that is done and holds the final event,
\* a terminal one, having been handed events by more than one poll
C34_Witness ==
    /\ ConsumerReq \in DOMAIN streams
    /\ streams[ConsumerReq].done
    /\ jpc[ConsumerReq] = "done"
    /\ Len(received) >= 2
    /\ cursor = Len(emitted[ConsumerReq])
    /\ received[Len(received)].type \in TerminalTypes
    /\ Len(emitted[ConsumerReq]) > MaxRetention

\* ---- C35
\* C35: move_to_station / execute_action report success (leave the poll loop
\* normally and emit step_done) only on a status read that shows the task
\* number this call issued as finished with result 'finished'; a read showing
\* it ended with result 'cancel' is not reported as success.
C35_SuccessOnlyOnFinished ==
    [][\A r \in ReqIds :
         (/\ Len(emitted'[r]) > Len(emitted[r])
          /\ emitted'[r][Len(emitted'[r])].type = "step_done")
         => /\ jloc'[r].status.state = "finished"
            /\ jloc'[r].status.no = jloc[r].task_no
            /\ jloc'[r].status.result = "ok"]_vars

\* ------------------------------------------------- PlanningFlow.execute
\* everything but the planning flow's state
notflow == <<jobvars, busvars, restvars, tnvars, hcall, push, wait, hcall2,
             charge>>

\* the step indices of a status list, in order, whose status is not_started
RECURSIVE NotStarted(_, _)
NotStarted(statuses, i) ==
    IF i > Len(statuses) THEN <<>>
    ELSE IF statuses[i] = "not_started"
         THEN <<i>> \o NotStarted(statuses, i + 1)
         ELSE NotStarted(statuses, i + 1)

\* planning_flow.py:176-181: the first index whose status is not_started,
\* 0 (the code's -1) if there is none
NextStepIdx(statuses) ==
    IF NotStarted(statuses, 1) = <<>> THEN 0 ELSE Head(NotStarted(statuses, 1))

\* planning_flow.py:257-262 as the rejected call would run it if the entry
\* check were inside the try block: the rejected call goes on to the finally
FlowEnter_reject_in_try(c, s) ==
    /\ fcall[c].pc = "idle"
    /\ flow_calls < MaxFlowCalls
    /\ flow_calls' = flow_calls + 1
    /\ IF s \in running_sessions
       THEN /\ fcall' = [fcall EXCEPT ![c] =
                   [NoFlowCall EXCEPT !.pc = "finally", !.session_id = s,
                                      !.ret = "busy"]]
            /\ UNCHANGED running_sessions
       ELSE /\ running_sessions' = running_sessions \cup {s}
            /\ fcall' = [fcall EXCEPT ![c] =
                   [NoFlowCall EXCEPT !.pc = "plan", !.session_id = s]]
    /\ UNCHANGED <<PLANS, fsession, notflow>>
\* planning_flow.py:47-52: under _session_lock, a session already in the
\* running set makes the call return its message at once (before the try
\* block, so its finally does not run); otherwise the session is added
FlowEnter(c, s) ==
    /\ fcall[c].pc = "idle"
    /\ flow_calls < MaxFlowCalls
    /\ flow_calls' = flow_calls + 1
    /\ IF s \in running_sessions
       THEN /\ fcall' = [fcall EXCEPT ![c] =
                   [NoFlowCall EXCEPT !.session_id = s, !.ret = "busy"]]
            /\ UNCHANGED running_sessions
       ELSE /\ running_sessions' = running_sessions \cup {s}
            /\ fcall' = [fcall EXCEPT ![c] =
                   [NoFlowCall EXCEPT !.pc = "plan", !.session_id = s]]
    /\ UNCHANGED <<PLANS, fsession, notflow>>

\* planning_flow.py:64-145, planning.py:37-43, 55-61: the plan id is the
\* session's or a new one from the clock (calls differ in time), and the
\* session keeps it; for a new id Manus runs and pushes to the conversation:
\* it raises, or creates no plan (the call returns the refusal), or creates a
\* plan of n steps and may mark some of them itself
FlowPlan(c, outcome, n, marks) ==
    LET s == fcall[c].session_id
        plan_id == IF fsession[s].active_plan_id # NoPlan
                   THEN fsession[s].active_plan_id
                   ELSE <<s, flow_calls>>
    IN  /\ fcall[c].pc = "plan"
        /\ IF plan_id \in DOMAIN PLANS
           THEN /\ fcall' = [fcall EXCEPT ![c].pc = "loop",
                                          ![c].plan_id = plan_id]
                /\ fsession' = [fsession EXCEPT ![s].active_plan_id = plan_id]
                /\ UNCHANGED PLANS
           ELSE /\ fsession' = [fsession EXCEPT
                        ![s].active_plan_id = plan_id,
                        ![s].conversation = @ + 1]
                /\ CASE outcome = "created" ->
                          /\ PLANS' = PLANS @@
                                 (plan_id :> [step_statuses |->
                                     [i \in 1..n |-> IF i \in marks
                                                     THEN "completed"
                                                     ELSE "not_started"]])
                          /\ fcall' = [fcall EXCEPT ![c].pc = "loop",
                                                    ![c].plan_id = plan_id]
                     [] OTHER ->
                          /\ fcall' = [fcall EXCEPT ![c].pc = "finally",
                                                    ![c].plan_id = plan_id,
                                                    ![c].ret = outcome]
                          /\ UNCHANGED PLANS
        /\ UNCHANGED <<running_sessions, flow_calls, notflow>>

\* planning_flow.py:148-206: the loop header and the choice of the step: a
\* set stop_event ends the loop; with no step not_started the call returns
\* the final summary; otherwise the step found is marked in_progress
FlowLoop(c, stop) ==
    LET plan_id == fcall[c].plan_id
        statuses == PLANS[plan_id].step_statuses
        next_step_idx == NextStepIdx(statuses)
    IN  /\ fcall[c].pc = "loop"
        /\ IF stop
           THEN /\ fcall' = [fcall EXCEPT ![c].pc = "finally",
                                          ![c].ret = "stopped"]
                /\ UNCHANGED PLANS
           ELSE IF next_step_idx = 0
           THEN /\ fcall' = [fcall EXCEPT ![c].pc = "finally",
                                          ![c].ret = "final_summary"]
                /\ UNCHANGED PLANS
           ELSE /\ PLANS' = [PLANS EXCEPT
                        ![plan_id].step_statuses[next_step_idx] = "in_progress"]
                /\ fcall' = [fcall EXCEPT
                        ![c].pc = "run",
                        ![c].next_step_idx = next_step_idx,
                        ![c].ran = Append(@, next_step_idx)]
        /\ UNCHANGED <<running_sessions, fsession, flow_calls, notflow>>

\* planning_flow.py:213-251 with the step marked completed at the failure
\* too, and the loop going on
FlowRun_goes_on(c, outcome) ==
    LET s == fcall[c].session_id
        plan_id == fcall[c].plan_id
        idx == fcall[c].next_step_idx
    IN  /\ fcall[c].pc = "run"
        /\ fsession' = [fsession EXCEPT ![s].conversation = @ + 1]
        /\ PLANS' = [PLANS EXCEPT ![plan_id].step_statuses[idx] =
               CASE outcome = "ok" -> "completed"
                 [] outcome = "logical_failure" -> "failed"
                 [] OTHER -> "error"]
        /\ fcall' = [fcall EXCEPT ![c].pc = "loop"]
        /\ UNCHANGED <<running_sessions, flow_calls, notflow>>
\* planning_flow.py:213-251: the executor runs the step and pushes to the
\* conversation; a result with a failure keyword marks the step failed and
\* returns the failure summary, an exception marks it error and returns the
\* error summary, anything else marks it completed and the loop goes on
FlowRun(c, outcome) ==
    LET s == fcall[c].session_id
        plan_id == fcall[c].plan_id
        idx == fcall[c].next_step_idx
    IN  /\ fcall[c].pc = "run"
        /\ fsession' = [fsession EXCEPT ![s].conversation = @ + 1]
        /\ CASE outcome = "ok" ->
                  /\ PLANS' = [PLANS EXCEPT
                         ![plan_id].step_statuses[idx] = "completed"]
                  /\ fcall' = [fcall EXCEPT ![c].pc = "loop"]
             [] outcome = "logical_failure" ->
                  /\ PLANS' = [PLANS EXCEPT
                         ![plan_id].step_statuses[idx] = "failed"]
                  /\ fcall' = [fcall EXCEPT ![c].pc = "finally",
                                            ![c].ret = "fail_summary"]
             [] OTHER ->
                  /\ PLANS' = [PLANS EXCEPT
                         ![plan_id].step_statuses[idx] = "error"]
                  /\ fcall' = [fcall EXCEPT ![c].pc = "finally",
                                            ![c].ret = "err_summary"]
        /\ UNCHANGED <<running_sessions, flow_calls, notflow>>

\* planning_flow.py:257-262: the finally block removes the session from the
\* running set, under _session_lock
FlowRelease(c) ==
    /\ fcall[c].pc = "finally"
    /\ running_sessions' = running_sessions \ {fcall[c].session_id}
    /\ fcall' = [fcall EXCEPT ![c].pc = "cleanup"]
    /\ UNCHANGED <<PLANS, fsession, flow_calls, notflow>>

\* planning_flow.py:264-268, session_store.py:61-70: the rest of the finally
\* block, outside the lock: the conversation is cleared and active_plan_id
\* set to None; then the call returns
FlowCleanup(c) ==
    /\ fcall[c].pc = "cleanup"
    /\ fsession' = [fsession EXCEPT ![fcall[c].session_id] =
           [active_plan_id |-> NoPlan, conversation |-> 0]]
    /\ fcall' = [fcall EXCEPT ![c].pc = "idle"]
    /\ UNCHANGED <<running_sessions, PLANS, flow_calls, notflow>>

\* execute calls on two threads, for plans of at most one step
FlowNext ==
    \/ \E c \in FlowCallers, s \in Sessions : FlowEnter(c, s)
    \/ \E c \in FlowCallers, outcome \in {"created", "refused", "raised"},
          n \in {0, 1} : FlowPlan(c, outcome, n, {})
    \/ \E c \in FlowCallers, stop \in BOOLEAN : FlowLoop(c, stop)
    \/ \E c \in FlowCallers, outcome \in {"ok", "logical_failure", "exception"} :
          FlowRun(c, outcome)
    \/ \E c \in FlowCallers : FlowRelease(c)
    \/ \E c \in FlowCallers : FlowCleanup(c)

FlowSpec == Init /\ [][FlowNext]_vars

\* execute calls one after the other on one thread, for plans of every size
StepsNext ==
    \/ \E s \in Sessions : FlowEnter(1, s)
    \/ \E outcome \in {"created", "refused", "raised"}, n \in 0..MaxSteps :
          \E marks \in SUBSET (1..n) : FlowPlan(1, outcome, n, marks)
    \/ \E stop \in BOOLEAN : FlowLoop(1, stop)
    \/ \E outcome \in {"ok", "logical_failure", "exception"} : FlowRun(1, outcome)
    \/ FlowRelease(1)
    \/ FlowCleanup(1)

StepsSpec == Init /\ [][StepsNext]_vars

\* the call is between the entry block that added its session to the running
\* set and the finally block that removes it
InBody(c) == fcall[c].pc \in {"plan", "loop", "run", "finally"}

C36_RunningSet ==
    /\ \A c1, c2 \in FlowCallers :
          InBody(c1) /\ InBody(c2) /\ c1 # c2
              => fcall[c1].session_id # fcall[c2].session_id
    /\ running_sessions = {fcall[c].session_id : c \in {d \in FlowCallers : InBody(d)}}

C36_Rejected ==
    \A c \in FlowCallers, s \in Sessions :
        s \in running_sessions /\ fcall[c].pc = "idle"
           /\ fcall'[c] # fcall[c] /\ fcall'[c].session_id = s
        => /\ fcall'[c].pc = "idle"
           /\ fcall'[c].ret = "busy"
           /\ running_sessions' = running_sessions
           /\ fsession' = fsession

StatusMove(old, new) ==
    \/ old = "not_started" /\ new = "in_progress"
    \/ old = "in_progress" /\ new \in {"completed", "failed", "error"}

C37_Steps ==
    \A p \in DOMAIN PLANS :
        LET old == PLANS[p].step_statuses
            new == PLANS'[p].step_statuses
        IN  /\ Len(new) = Len(old)
            /\ \A i \in 1..Len(old) :
                  new[i] # old[i] =>
                     /\ StatusMove(old[i], new[i])
                     /\ new[i] = "in_progress" =>
                           \A j \in 1..Len(old) :
                              /\ j < i => old[j] # "not_started"
                              /\ old[j] \notin {"in_progress", "failed", "error"}

C37_Summary ==
    \A c \in FlowCallers :
        fcall'[c].ret = "final_summary" /\ fcall[c].ret # "final_summary" =>
            \A i \in 1..Len(PLANS[fcall[c].plan_id].step_statuses) :
                PLANS[fcall[c].plan_id].step_statuses[i] # "not_started"

C37_InProgress ==
    \A p \in DOMAIN PLANS : \A i \in 1..Len(PLANS[p].step_statuses) :
        PLANS[p].step_statuses[i] = "in_progress" =>
            \E c \in FlowCallers :
                fcall[c].pc = "run" /\ fcall[c].plan_id = p
                    /\ fcall[c].next_step_idx = i

notcharge == <<jobvars, busvars, restvars, tnvars, hcall, push, wait, hcall2,
               flowvars>>

ChargeOps == {"start_charge", "stop_charge"}
\* sr_modbus_sdk.py:314-336: the coils cancel_task, charge and stop_charge write
CancelCoil == 3
ChargeCoil == 9
StopChargeCoil == 10

\* robot_client.py:248-255, 274-281: a call begins
ChargeCall(op) ==
    /\ charge.pc = "idle"
    /\ charge.calls < MaxChargeCalls
    /\ charge' = [charge EXCEPT !.pc = "check", !.op = op, !.reads = 0,
                                !.polls = 0, !.events = <<>>, !.raised = <<>>,
                                !.calls = @ + 1]
    /\ UNCHANGED notcharge

\* robot_client.py:257-261, 282-286 with the test left out: the call goes on
\* to the command whatever is_charging() answered
ChargeCheck_no_test(fails) ==
    /\ charge.pc = "check"
    /\ IF fails = max_retries
       THEN charge' = [charge EXCEPT !.pc = "idle", !.reads = max_retries,
                                     !.raised = <<"Modbus Error">>]
       ELSE charge' = [charge EXCEPT !.pc = "write", !.reads = fails + 1,
                                     !.events = Append(@, "started")]
    /\ UNCHANGED notcharge
\* robot_client.py:109-113, 257-261, 282-286: is_charging() reads the input
\* through _retry_on_modbus_error, 'fails' attempts failing before one is
\* answered (all of them: the error is raised); start_charge on a charging
\* robot and stop_charge on one that is not emit step_done and return, the
\* others emit 'started' and go on to the command
ChargeCheck(fails) ==
    /\ charge.pc = "check"
    /\ IF fails = max_retries
       THEN charge' = [charge EXCEPT !.pc = "idle", !.reads = max_retries,
                                     !.raised = <<"Modbus Error">>]
       ELSE IF charge.charging = (charge.op = "start_charge")
       THEN charge' = [charge EXCEPT !.pc = "idle", !.reads = fails + 1,
                                     !.events = Append(@, "step_done")]
       ELSE charge' = [charge EXCEPT !.pc = "write", !.reads = fails + 1,
                                     !.events = Append(@, "started")]
    /\ UNCHANGED notcharge

\* robot_client.py:262, 287: the command is written through
\* _retry_on_modbus_error; if every attempt fails the error is raised
ChargeWrite(ok) ==
    /\ charge.pc = "write"
    /\ IF ok
       THEN charge' = [charge EXCEPT
                !.pc = "poll",
                !.coils = Append(@, IF charge.op = "start_charge"
                                    THEN ChargeCoil ELSE StopChargeCoil)]
       ELSE charge' = [charge EXCEPT !.pc = "idle",
                                     !.raised = <<"Modbus Error">>]
    /\ UNCHANGED notcharge

\* the controller follows the last charge command written to it
ControllerObeys ==
    /\ charge.coils # <<>>
    /\ \E i \in 1..Len(charge.coils) :
          /\ charge.coils[i] \in {ChargeCoil, StopChargeCoil}
          /\ \A j \in (i + 1)..Len(charge.coils) : charge.coils[j] = CancelCoil
          /\ charge.charging # (charge.coils[i] = ChargeCoil)
          /\ charge' = [charge EXCEPT !.charging = (charge.coils[i] = ChargeCoil)]
    /\ UNCHANGED notcharge

\* robot_client.py:136-171, 264-272, 289-297: one pass of _poll_task_status
\* and what follows it: a set stop_event cancels the controller's task and
\* raises; the timeout raises; a read that is answered is followed by a
\* progress event (the first one always) and, if it shows the state asked for,
\* by step_done and the return; a read that fails is ignored
ChargePoll(outcome) ==
    /\ charge.pc = "poll"
    /\ CASE outcome = "stop" ->
              charge' = [charge EXCEPT !.pc = "idle",
                                       !.coils = Append(@, CancelCoil),
                                       !.raised = <<"InterruptedError">>]
         [] charge.polls >= MaxChargePolls ->
              charge' = [charge EXCEPT !.pc = "idle",
                                       !.raised = <<"TimeoutError">>]
         [] outcome = "failed" ->
              charge' = [charge EXCEPT !.polls = @ + 1]
         [] OTHER ->
              LET progress == IF "progress" \in {charge.events[i] :
                                     i \in 1..Len(charge.events)}
                              THEN charge.events
                              ELSE Append(charge.events, "progress")
              IN  IF charge.charging = (charge.op = "start_charge")
                  THEN charge' = [charge EXCEPT
                           !.pc = "idle", !.polls = @ + 1,
                           !.events = Append(progress, "step_done")]
                  ELSE charge' = [charge EXCEPT !.polls = @ + 1,
                                                !.events = progress]
    /\ UNCHANGED notcharge

ChargeNext ==
    \/ \E op \in ChargeOps : ChargeCall(op)
    \/ \E fails \in 0..max_retries : ChargeCheck(fails)
    \/ \E ok \in BOOLEAN : ChargeWrite(ok)
    \/ ControllerObeys
    \/ \E outcome \in {"answered", "failed", "stop"} : ChargePoll(outcome)

ChargeSpec == Init /\ [][ChargeNext]_vars

\* C38: when is_charging() is answered and the robot is already in the state
\* asked for (charging for start_charge, not charging for stop_charge), the
\* call emits step_done as its only event and returns, with no coil written,
\* no pass of the poll loop and the controller's charging state as it was
C38_NothingToDo ==
    [][ (charge.pc = "check" /\ charge'.reads # charge.reads
           /\ charge'.raised = <<>>
           /\ charge.charging = (charge.op = "start_charge"))
        => /\ charge'.pc = "idle"
           /\ charge'.events = <<"step_done">>
           /\ charge'.coils = charge.coils
           /\ charge'.polls = 0
           /\ charge'.charging = charge.charging ]_vars

\* start_charge returned at once on a robot an earlier call had set charging
C38_Witness ==
    /\ charge.pc = "idle" /\ charge.op = "start_charge"
    /\ charge.charging /\ charge.raised = <<>>
    /\ charge.events = <<"step_done">> /\ charge.polls = 0
    /\ charge.coils = <<ChargeCoil>> /\ charge.calls = 2

====
